---- MODULE Spec2Model ----
(***************************************************************************)
(* A model of the CANSLIM backtesting engine (backtesting/backtester.py), *)
(* the rebalance scheduler (utils/calendar_utils.py), the indicator engine *)
(* (strategies/canslim_calculator.py), the CANSLIMStrategy module          *)
(* (strategy/canslim_strategy.py), the metrics (utils/metrics.py) and the  *)
(* reference strategies (strategies/strategy_definitions.py).              *)
(*                                                                         *)
(* Money, weights, prices and share counts are Python floats in the code;  *)
(* here they are exact rationals <<n, d>> (d > 0, lowest terms), so that   *)
(* weight * value / price is computed as written, without rounding.       *)
(* Dates are day numbers (integers), ordered as the calendar orders them.  *)
(***************************************************************************)
EXTENDS Integers, Sequences, FiniteSets, TLC

VARIABLES
    pc,                   \* where the caller of run_backtest stands
    proxies_df,           \* argument: <<date, ticker>> -> close or NoRow
    top_stocks_df,        \* argument: <<date, ticker>> -> close or NoRow
    rebalance_dates,      \* argument: list of dates
    initial_funds,        \* argument
    strategy_func,        \* argument: the allocations the callback may return
    data_dict,            \* argument: what the strategy left in the shared context
    trading_days,         \* local of run_backtest (line 55)
    day_index,            \* position of the for loop of line 86 in trading_days
    portfolio_value,      \* local (line 57)
    holdings,             \* local (line 58): ticker -> shares
    first_rebalance_done, \* local (line 84)
    portfolio_records,    \* local (line 83)
    portfolio_history,    \* the returned frame, NoHistory before the return
    strategy_calls,       \* log of the calls made to strategy_func in this run
    holdings_log,         \* holdings as they stood when each record was appended
    memo,                 \* the strategy as a function: arguments -> what it answered
    run_no,               \* 1 in the first call of run_backtest, 2 in the repeated one
    first_history,        \* what the first call returned
    cal,                  \* state of a get_rebalance_dates call (scheduler)
    ind,                  \* state of a calculate_canslim_indicators call
    stg,                  \* state of a CANSLIMStrategy evaluation
    met,                  \* state of a metrics call
    ref                   \* state of the calls of a reference strategy

vars == <<pc, proxies_df, top_stocks_df, rebalance_dates, initial_funds,
          strategy_func, data_dict, trading_days, day_index, portfolio_value,
          holdings, first_rebalance_done, portfolio_records, portfolio_history,
          strategy_calls, holdings_log, memo, run_no, first_history, cal, ind, stg, met, ref>>

-----------------------------------------------------------------------------
(* Bounds of the model *)

MaxDate == 3
MaxRebalanceDates == 2

-----------------------------------------------------------------------------
(* Exact rational arithmetic standing for the floats of the code *)

Abs(n) == IF n < 0 THEN -n ELSE n

RECURSIVE GCD(_, _)
GCD(a, b) == IF b = 0 THEN a ELSE GCD(b, a % b)

Rat(n, d) ==
    LET s == IF d < 0 THEN -1 ELSE 1
        g == GCD(Abs(n), Abs(d))
    IN  <<(s * n) \div g, (s * d) \div g>>

RZero == <<0, 1>>
RInt(n) == <<n, 1>>
\* Common factors are cancelled before multiplying, to keep the numbers small.
RAdd(x, y) ==
    LET g == GCD(x[2], y[2])
    IN  Rat(x[1] * (y[2] \div g) + y[1] * (x[2] \div g), (x[2] \div g) * y[2])
RMul(x, y) ==
    LET g1 == GCD(Abs(x[1]), y[2])
        g2 == GCD(Abs(y[1]), x[2])
    IN  Rat((x[1] \div g1) * (y[1] \div g2), (x[2] \div g2) * (y[2] \div g1))
RDiv(x, y) == RMul(x, Rat(y[2], y[1]))
RLeq(x, y) == x[1] * y[2] <= y[1] * x[2]
RLess(x, y) == x[1] * y[2] < y[1] * x[2]

-----------------------------------------------------------------------------
(* Tickers, dates and the price tables *)

MARKET_PROXY == "MARKET_PROXY"
MONEY_MARKET_PROXY == "MONEY_MARKET_PROXY"
Tickers == {MARKET_PROXY, MONEY_MARKET_PROXY, "A"}

NoRow == <<>>             \* the filtered frame is empty (row.empty)
None == <<>>              \* get_price found no row

Dates == 1 .. MaxDate

\* A price table holds at most one row per (date, ticker), as PriceBar requires:
\* a function from <<date, ticker>> to the row's close, or NoRow.
RowKeys == Dates \X Tickers

TableDates(df) == {k[1] : k \in {r \in DOMAIN df : df[r] # NoRow}}

SetMax(S) == CHOOSE x \in S : \A y \in S : y <= x
SetMin(S) == CHOOSE x \in S : \A y \in S : x <= y

RECURSIVE SortedSeq(_)
SortedSeq(S) == IF S = {} THEN <<>> ELSE <<SetMin(S)>> \o SortedSeq(S \ {SetMin(S)})

Range(s) == {s[i] : i \in DOMAIN s}

-----------------------------------------------------------------------------
(* run_backtest: the helpers *)

\* Line 48-50: the end date is clipped to the latest date of the proxy table.
ClippedEndDate(rd, pdf) ==
    LET end_date == rd[Len(rd)]
        max_available_date == SetMax(TableDates(pdf))
    IN  IF end_date > max_available_date THEN max_available_date ELSE end_date

\* As TradingDaysFrom, with the start date itself left out (> for >=).
TradingDaysAfterStart(rd, pdf) ==
    LET start_date == rd[1]
        end_date == ClippedEndDate(rd, pdf)
    IN  SortedSeq({d \in TableDates(pdf) : d > start_date /\ d <= end_date})

\* Lines 52-55: the distinct proxy dates within [start_date, end_date], sorted.
TradingDaysFrom(rd, pdf) ==
    LET start_date == rd[1]
        end_date == ClippedEndDate(rd, pdf)
    IN  SortedSeq({d \in TableDates(pdf) : d >= start_date /\ d <= end_date})

\* Lines 60-71.
get_price(date, ticker) ==
    LET row == IF ticker = MARKET_PROXY \/ ticker = MONEY_MARKET_PROXY
               THEN proxies_df[<<date, ticker>>]
               ELSE top_stocks_df[<<date, ticker>>]
    IN  IF row = NoRow THEN None ELSE row

\* As SumHoldings, returning 0.0 as soon as a held ticker has no price.
RECURSIVE SumHoldingsReturnEarly(_, _, _)
SumHoldingsReturnEarly(date, h, todo) ==
    IF todo = {} \/ \E t \in todo : get_price(date, t) = None THEN RZero
    ELSE LET tkr == CHOOSE t \in todo : TRUE
         IN  RAdd(SumHoldingsReturnEarly(date, h, todo \ {tkr}),
                  RMul(h[tkr], get_price(date, tkr)))

\* Lines 73-81: a held ticker without a price adds nothing.
RECURSIVE SumHoldings(_, _, _)
SumHoldings(date, h, todo) ==
    IF todo = {} THEN RZero
    ELSE LET tkr == CHOOSE t \in todo : TRUE
             price == get_price(date, tkr)
             rest == SumHoldings(date, h, todo \ {tkr})
         IN  IF price # None THEN RAdd(rest, RMul(h[tkr], price)) ELSE rest

compute_portfolio_value(date, h) == SumHoldings(date, h, DOMAIN h)

\* Line 114: the tickers of the allocation that are skipped.
InvalidPrice(price) == price = None \/ RLeq(price, RZero)

\* As SharesFor, the weight clamped to [0, 1] first.
SharesForClamped(weight, value, price) ==
    LET clamped == IF RLess(weight, RZero) THEN RZero
                   ELSE IF RLess(RInt(1), weight) THEN RInt(1) ELSE weight
    IN  RDiv(RMul(clamped, value), price)

\* As SharesFor, without the division by the price.
SharesForNoPrice(weight, value, price) == RMul(weight, value)

\* Line 117.
SharesFor(weight, value, price) == RDiv(RMul(weight, value), price)

\* As NewHoldings, updating the old holdings instead of replacing them.
NewHoldingsMerged(date, allocation, value) ==
    [tkr \in {t \in DOMAIN allocation : ~InvalidPrice(get_price(date, t))} |->
        SharesFor(allocation[tkr], value, get_price(date, tkr))] @@ holdings

\* As NewHoldings, a ticker without a valid price keeping the shares held.
NewHoldingsKeepUnpriced(date, allocation, value) ==
    [tkr \in {t \in DOMAIN allocation :
                 ~InvalidPrice(get_price(date, t)) \/ t \in DOMAIN holdings} |->
        IF InvalidPrice(get_price(date, tkr)) THEN holdings[tkr]
        ELSE SharesFor(allocation[tkr], value, get_price(date, tkr))]

\* As NewHoldings, a position without a price row on the date staying on.
NewHoldingsCarryUnpriced(date, allocation, value) ==
    [tkr \in {t \in DOMAIN allocation : ~InvalidPrice(get_price(date, t))} |->
        SharesFor(allocation[tkr], value, get_price(date, tkr))]
    @@ [tkr \in {t \in DOMAIN holdings : get_price(date, t) = None} |-> holdings[tkr]]

\* Lines 111-121: the holdings that replace the old ones.
NewHoldings(date, allocation, value) ==
    [tkr \in {t \in DOMAIN allocation : ~InvalidPrice(get_price(date, t))} |->
        SharesFor(allocation[tkr], value, get_price(date, tkr))]

\* As IsRebalanceDate, comparing a Timestamp with dates: never equal.
IsRebalanceDateNever(date) == FALSE

\* Line 89.
IsRebalanceDate(date) == date \in Range(rebalance_dates)

\* As ValueForStrategy, without the override of the first rebalance.
ValueForStrategyNoOverride(is_first_rebalance, computed) == computed

\* As ValueForStrategy, the value never falling below the one handed over at
\* the rebalance before, as if cash left unallocated had been kept.
ValueForStrategyWithCash(is_first_rebalance, computed) ==
    IF is_first_rebalance THEN initial_funds
    ELSE IF RLess(computed, portfolio_value) THEN portfolio_value ELSE computed

\* Lines 102-105: the value handed to the strategy.
ValueForStrategy(is_first_rebalance, computed) ==
    IF is_first_rebalance THEN initial_funds ELSE computed

\* As InitialFirstRebalanceDone, the flag surviving from an earlier call.
StaleFirstRebalanceDone == first_rebalance_done

\* Lines 58, 84: the locals as a call of run_backtest creates them.
InitialHoldings == <<>>
InitialFirstRebalanceDone == FALSE

\* Lines 130-132: the records sorted by date.
RECURSIVE SortByDate(_)
SortByDate(recs) ==
    IF recs = <<>> THEN <<>>
    ELSE LET m == SetMin({recs[i].date : i \in DOMAIN recs})
             i == CHOOSE j \in DOMAIN recs : recs[j].date = m /\ \A k \in 1 .. (j - 1) : recs[k].date # m
         IN  <<recs[i]>> \o SortByDate(SubSeq(recs, 1, i - 1) \o SubSeq(recs, i + 1, Len(recs)))

-----------------------------------------------------------------------------
(* The inputs a call of run_backtest is given *)

Half == <<1, 2>>

\* The maps a strategy returns here: empty, fully invested, partly invested,
\* a map with a negative weight and a weight above 1 (still summing to 1), and
\* a map whose weights sum to 2.
Allocations ==
    { <<>>,
      (MARKET_PROXY :> RInt(1)),
      ("A" :> RInt(1)),
      (MARKET_PROXY :> Half) @@ ("A" :> Half),
      ("A" :> Half),
      (MARKET_PROXY :> <<3, 2>>) @@ ("A" :> <<-1, 2>>),
      (MARKET_PROXY :> RInt(1)) @@ ("A" :> RInt(1)) }


\* Proxy tables: rows of the market proxy only, at least one of them, on any
\* set of dates; the proxy closes at 1, 2, 3, ... on the dates 1, 2, 3, ...
ProxyTables ==
    {[k \in RowKeys |-> IF k[2] = MARKET_PROXY /\ k[1] \in days THEN RInt(k[1]) ELSE NoRow] :
        days \in (SUBSET Dates) \ {{}}}

\* Universe tables: rows of the stock A only. A closes at 2 on every date, but
\* for at most one date on which its row is missing or its close is 0; or A
\* has no row at all.
GapCloses == {NoRow, RZero}

StockTables ==
    {[k \in RowKeys |-> IF k[2] # "A" THEN NoRow
                        ELSE IF k[1] = gap THEN close ELSE RInt(2)] :
        gap \in Dates \cup {0}, close \in GapCloses}
    \cup {[k \in RowKeys |-> NoRow]}

\* Rebalance lists: any list of dates, sorted or not, also of dates that are
\* not in the proxy table or lie past its latest date.
RebalanceLists ==
    UNION {[1 .. n -> 1 .. (MaxDate + 1)] : n \in 0 .. MaxRebalanceDates}

\* The shared context as the caller hands it over.
FreshDataDict == [tables |-> FALSE, notes |-> 0]

\* get_rebalance_dates is not part of a run_backtest call.
NoCal == [pc |-> "none"]
NoInd == [pc |-> "none"]
NoStg == [pc |-> "none"]
NoMet == [pc |-> "none"]
NoRef == [pc |-> "none"]

Init ==
    /\ pc = "idle"
    /\ proxies_df \in ProxyTables
    /\ top_stocks_df \in StockTables
    /\ rebalance_dates \in RebalanceLists
    /\ initial_funds = RInt(4)
    /\ strategy_func = Allocations
    /\ data_dict = FreshDataDict
    /\ trading_days = <<>>
    /\ day_index = 0
    /\ portfolio_value = RZero
    /\ holdings = <<>>
    /\ first_rebalance_done = FALSE
    /\ portfolio_records = <<>>
    /\ portfolio_history = <<>>
    /\ strategy_calls = <<>>
    /\ holdings_log = <<>>
    /\ memo = <<>>
    /\ run_no = 1
    /\ first_history = <<>>
    /\ cal = NoCal
    /\ ind = NoInd
    /\ stg = NoStg
    /\ met = NoMet
    /\ ref = NoRef

-----------------------------------------------------------------------------
(* run_backtest, one action per step of its control flow *)

inputs == <<proxies_df, top_stocks_df, rebalance_dates, initial_funds, strategy_func>>
locals == <<trading_days, day_index, portfolio_value, holdings, first_rebalance_done,
            portfolio_records>>

\* Lines 33-58 and 83-84 for a non-empty list of rebalance dates.
Call ==
    /\ pc = "idle"
    /\ rebalance_dates # <<>>
    /\ data_dict' = [data_dict EXCEPT !.tables = TRUE]
    /\ trading_days' = TradingDaysFrom(rebalance_dates, proxies_df)
    /\ day_index' = 1
    /\ portfolio_value' = initial_funds
    /\ holdings' = InitialHoldings
    /\ first_rebalance_done' = InitialFirstRebalanceDone
    /\ portfolio_records' = <<>>
    /\ pc' = "loop"
    /\ UNCHANGED <<inputs, portfolio_history, strategy_calls, holdings_log, memo,
                   run_no, first_history, cal, ind, stg, met, ref>>

\* As CallRaises, returning an empty series instead of raising.
CallReturnsEmpty ==
    /\ pc = "idle"
    /\ rebalance_dates = <<>>
    /\ data_dict' = [data_dict EXCEPT !.tables = TRUE]
    /\ pc' = "returned"
    /\ UNCHANGED <<inputs, locals, portfolio_history, strategy_calls, holdings_log,
                   memo, run_no, first_history, cal, ind, stg, met, ref>>

\* Lines 33-44 for an empty list: rebalance_dates[0] raises IndexError.
CallRaises ==
    /\ pc = "idle"
    /\ rebalance_dates = <<>>
    /\ data_dict' = [data_dict EXCEPT !.tables = TRUE]
    /\ pc' = "raised"
    /\ UNCHANGED <<inputs, locals, portfolio_history, strategy_calls, holdings_log,
                   memo, run_no, first_history, cal, ind, stg, met, ref>>

\* What the strategy answers: a pure function of its arguments (the shared
\* context among them), fixed by its first answer to them; like the supplied
\* strategies that record their picks, it leaves a note in the shared context.
StrategyKey(date, value, is_first) == <<date, value, is_first, data_dict.notes>>

\* Lines 86-128 on a rebalance date: value the holdings, call the strategy,
\* replace the holdings, then record the day's value.
Rebalance ==
    /\ pc = "loop"
    /\ day_index <= Len(trading_days)
    /\ LET current_date == trading_days[day_index]
           computed == compute_portfolio_value(current_date, holdings)
           is_first_rebalance == ~first_rebalance_done
           value == ValueForStrategy(is_first_rebalance, computed)
           key == StrategyKey(current_date, value, is_first_rebalance)
       IN  /\ IsRebalanceDate(current_date)
           /\ \E allocation \in strategy_func :
                LET answer == [allocation |-> allocation, notes |-> data_dict.notes + 1]
                    new_holdings == NewHoldings(current_date, allocation, value)
                    daily_value == compute_portfolio_value(current_date, new_holdings)
                IN  /\ IF key \in DOMAIN memo
                       THEN memo[key] = answer /\ memo' = memo
                       ELSE memo' = memo @@ (key :> answer)
                    /\ data_dict' = [data_dict EXCEPT !.notes = answer.notes]
                    /\ portfolio_value' = value
                    /\ holdings' = new_holdings
                    /\ first_rebalance_done' = TRUE
                    /\ portfolio_records' = Append(portfolio_records,
                           [date |-> current_date, portfolio_value |-> daily_value])
                    /\ strategy_calls' = Append(strategy_calls,
                           [date |-> current_date, portfolio_value |-> value,
                            is_first_rebalance |-> is_first_rebalance,
                            allocation |-> allocation, computed |-> computed,
                            record |-> Len(portfolio_records) + 1])
                    /\ holdings_log' = Append(holdings_log, new_holdings)
    /\ day_index' = day_index + 1
    /\ UNCHANGED <<inputs, pc, trading_days, portfolio_history, run_no, first_history, cal, ind, stg, met, ref>>

\* As MarkToMarket, selling everything once the day's value is recorded.
MarkToMarketAndSell ==
    /\ pc = "loop"
    /\ day_index <= Len(trading_days)
    /\ LET current_date == trading_days[day_index]
           daily_value == compute_portfolio_value(current_date, holdings)
       IN  /\ ~IsRebalanceDate(current_date)
           /\ portfolio_records' = Append(portfolio_records,
                  [date |-> current_date, portfolio_value |-> daily_value])
           /\ holdings_log' = Append(holdings_log, holdings)
    /\ holdings' = <<>>
    /\ day_index' = day_index + 1
    /\ UNCHANGED <<inputs, pc, data_dict, trading_days, portfolio_value,
                   first_rebalance_done, portfolio_history, strategy_calls, memo,
                   run_no, first_history, cal, ind, stg, met, ref>>

\* Lines 86-89 and 126-128 on any other trading day: record the day's value.
MarkToMarket ==
    /\ pc = "loop"
    /\ day_index <= Len(trading_days)
    /\ LET current_date == trading_days[day_index]
           daily_value == compute_portfolio_value(current_date, holdings)
       IN  /\ ~IsRebalanceDate(current_date)
           /\ portfolio_records' = Append(portfolio_records,
                  [date |-> current_date, portfolio_value |-> daily_value])
           /\ holdings_log' = Append(holdings_log, holdings)
    /\ day_index' = day_index + 1
    /\ UNCHANGED <<inputs, pc, data_dict, trading_days, portfolio_value, holdings,
                   first_rebalance_done, portfolio_history, strategy_calls, memo,
                   run_no, first_history, cal, ind, stg, met, ref>>

\* Lines 130-136: the frame of the records, sorted by date, is returned.
Return ==
    /\ pc = "loop"
    /\ day_index > Len(trading_days)
    /\ portfolio_records # <<>>
    /\ portfolio_history' = SortByDate(portfolio_records)
    /\ first_history' = IF run_no = 1 THEN SortByDate(portfolio_records) ELSE first_history
    /\ pc' = "returned"
    /\ UNCHANGED <<inputs, locals, data_dict, strategy_calls, holdings_log, memo, run_no, cal, ind, stg, met, ref>>

\* Lines 130-131 when no day was simulated: the frame has no column "date"
\* and sort_values("date") raises KeyError.
ReturnRaises ==
    /\ pc = "loop"
    /\ day_index > Len(trading_days)
    /\ portfolio_records = <<>>
    /\ pc' = "raised"
    /\ UNCHANGED <<inputs, locals, data_dict, portfolio_history, strategy_calls,
                   holdings_log, memo, run_no, first_history, cal, ind, stg, met, ref>>

\* The caller calls run_backtest once more with the same arguments and a
\* shared context equal to the one it gave the first time.
CallAgain ==
    /\ pc = "returned"
    /\ run_no = 1
    /\ run_no' = 2
    /\ pc' = "idle"
    /\ data_dict' = FreshDataDict
    /\ portfolio_history' = <<>>
    /\ strategy_calls' = <<>>
    /\ holdings_log' = <<>>
    /\ UNCHANGED <<inputs, locals, memo, first_history, cal, ind, stg, met, ref>>

Next ==
    \/ Call
    \/ CallRaises
    \/ Rebalance
    \/ MarkToMarket
    \/ Return
    \/ ReturnRaises

Spec == Init /\ [][Next]_vars

\* Two calls in a row with the same arguments.
NextTwice == Next \/ CallAgain

SpecTwice == Init /\ [][NextTwice]_vars

-----------------------------------------------------------------------------
(* The claims about run_backtest *)

StrictlyAscending(seq) == \A i \in 1 .. (Len(seq) - 1) : seq[i] < seq[i + 1]
DatesOf(recs) == [i \in DOMAIN recs |-> recs[i].date]
CallDates == DatesOf(strategy_calls)
RecordDates == DatesOf(portfolio_records)
LastProxyDate == SetMax(TableDates(proxies_df))

\* The dates of the proxy table within [rebalance_dates[0], rebalance_dates[-1]].
DaysInRange ==
    {d \in TableDates(proxies_df) :
        d >= rebalance_dates[1] /\ d <= rebalance_dates[Len(rebalance_dates)]}

\* C1, as claimed: a run that returns has called the strategy exactly once for
\* each date in rebalance_dates, and on no other day.
C1_CalledOncePerRebalanceDate ==
    pc = "returned" =>
        /\ \A d \in Range(rebalance_dates) :
              Cardinality({i \in DOMAIN strategy_calls : strategy_calls[i].date = d}) = 1
        /\ \A i \in DOMAIN strategy_calls : strategy_calls[i].date \in Range(rebalance_dates)

\* C1, amended: the strategy is called on no day that is not in rebalance_dates,
\* at most once per date, in ascending date order; a run that returns has called
\* it exactly once for each date of rebalance_dates that is a date of the proxy
\* table within [rebalance_dates[0], rebalance_dates[-1]], and for no other date.
C1_CalledOncePerSimulatedRebalanceDate ==
    /\ StrictlyAscending(CallDates)
    /\ \A i \in DOMAIN strategy_calls : strategy_calls[i].date \in Range(rebalance_dates)
    /\ pc = "returned" =>
          Range(CallDates) = {d \in DaysInRange : d \in Range(rebalance_dates)}

\* A returned run with a strategy call, a recorded day that is no rebalance
\* date, and a rebalance date on which the strategy was not called.
C1_Witness ==
    /\ pc = "returned"
    /\ strategy_calls # <<>>
    /\ \E i \in DOMAIN portfolio_records : RecordDates[i] \notin Range(rebalance_dates)
    /\ \E d \in Range(rebalance_dates) : d \notin Range(CallDates)

\* C2: the first rebalance of a run, and only the first, is flagged as first, and
\* the value passed to the strategy on it is initial_funds.
C2_FirstRebalanceGetsInitialFunds ==
    \A i \in DOMAIN strategy_calls :
        /\ strategy_calls[i].is_first_rebalance <=> (i = 1)
        /\ i = 1 => strategy_calls[i].portfolio_value = initial_funds

\* A first rebalance whose holdings marked to market at 0, not at initial_funds.
C2_Witness ==
    /\ strategy_calls # <<>>
    /\ strategy_calls[1].computed = RZero
    /\ strategy_calls[1].computed # initial_funds
    /\ strategy_calls[1].portfolio_value = initial_funds

\* C3: the returned series has one record for each date of the proxy table in
\* [rebalance_dates[0], min(rebalance_dates[-1], latest proxy date)], none for
\* another date, in strictly ascending date order.
C3_SeriesCoversClippedRange ==
    pc = "returned" =>
        /\ StrictlyAscending(DatesOf(portfolio_history))
        /\ Range(DatesOf(portfolio_history)) =
              {d \in DaysInRange : d <= LastProxyDate}
        /\ Len(portfolio_history) = Cardinality({d \in DaysInRange : d <= LastProxyDate})

\* A returned series of several days, clipped at the latest proxy date.
C3_Witness ==
    /\ pc = "returned"
    /\ Len(portfolio_history) >= 2
    /\ rebalance_dates[Len(rebalance_dates)] > LastProxyDate

RECURSIVE WeightSumOver(_, _)
WeightSumOver(allocation, todo) ==
    IF todo = {} THEN RZero
    ELSE LET t == CHOOSE x \in todo : TRUE
         IN  RAdd(allocation[t], WeightSumOver(allocation, todo \ {t}))

WeightSum(allocation) == WeightSumOver(allocation, DOMAIN allocation)

AllPricedPositive(date, allocation) ==
    \A t \in DOMAIN allocation :
        get_price(date, t) # None /\ RLess(RZero, get_price(date, t))

\* C4: at a rebalance whose weights sum to 1 and whose tickers all have a
\* price > 0 that day, the value recorded for the day is the value that was
\* passed to the strategy.
C4_RebalanceKeepsValue ==
    \A i \in DOMAIN strategy_calls :
        LET c == strategy_calls[i]
        IN  (WeightSum(c.allocation) = RInt(1) /\ AllPricedPositive(c.date, c.allocation))
                => portfolio_records[c.record].portfolio_value = c.portfolio_value

\* A later rebalance into two tickers, one of them not priced at 1, with weights
\* summing to 1 and a value that is neither 0 nor initial_funds.
C4_Witness ==
    \E i \in DOMAIN strategy_calls :
        LET c == strategy_calls[i]
        IN  /\ i > 1
            /\ Cardinality(DOMAIN c.allocation) = 2
            /\ WeightSum(c.allocation) = RInt(1)
            /\ AllPricedPositive(c.date, c.allocation)
            /\ \E t \in DOMAIN c.allocation : get_price(c.date, t) # RInt(1)
            /\ c.portfolio_value # RZero
            /\ c.portfolio_value # initial_funds
            /\ portfolio_records[c.record].portfolio_value = c.portfolio_value

\* shares x price of the tickers of S held in h and priced on the date.
RECURSIVE PricedWorth(_, _, _)
PricedWorth(date, h, S) ==
    IF S = {} THEN RZero
    ELSE LET t == CHOOSE x \in S : TRUE
             worth == IF t \in DOMAIN h /\ get_price(date, t) # None
                      THEN RMul(h[t], get_price(date, t)) ELSE RZero
         IN  RAdd(worth, PricedWorth(date, h, S \ {t}))

\* No rebalance took place at the records i+1 .. j.
NoRebalanceBetween(i, j) ==
    \A c \in DOMAIN strategy_calls :
        strategy_calls[c].record <= i \/ strategy_calls[c].record > j

\* C5: a held ticker without a price row on a day adds 0 to that day's value;
\* it stays in the holdings with the same shares as long as no rebalance
\* replaces them, and on a later such day where it has a price it adds
\* shares x price again.
C5_MissingPriceKeepsPosition ==
    \A i \in DOMAIN holdings_log : \A t \in DOMAIN holdings_log[i] :
        get_price(RecordDates[i], t) = None =>
            /\ portfolio_records[i].portfolio_value =
                  PricedWorth(RecordDates[i], holdings_log[i], Tickers \ {t})
            /\ \A j \in DOMAIN holdings_log :
                  (j > i /\ NoRebalanceBetween(i, j)) =>
                      /\ t \in DOMAIN holdings_log[j]
                      /\ holdings_log[j][t] = holdings_log[i][t]
                      /\ get_price(RecordDates[j], t) # None =>
                            portfolio_records[j].portfolio_value =
                                RAdd(PricedWorth(RecordDates[j], holdings_log[j], Tickers \ {t}),
                                     RMul(holdings_log[i][t], get_price(RecordDates[j], t)))
            /\ (NoRebalanceBetween(i, Len(holdings_log)) /\ pc # "idle") =>
                  (t \in DOMAIN holdings /\ holdings[t] = holdings_log[i][t])

\* Two tickers held, one of them without a price on a day and worth something
\* again on a later day, no rebalance in between.
C5_Witness ==
    \E i, j \in DOMAIN holdings_log : \E t \in DOMAIN holdings_log[i] :
        /\ i < j
        /\ NoRebalanceBetween(i, j)
        /\ Cardinality(DOMAIN holdings_log[i]) = 2
        /\ get_price(RecordDates[i], t) = None
        /\ get_price(RecordDates[j], t) # None
        /\ RLess(RZero, RMul(holdings_log[j][t], get_price(RecordDates[j], t)))
        /\ RLess(portfolio_records[i].portfolio_value, portfolio_records[j].portfolio_value)

\* The record of the next rebalance after call c, or one past the last record.
NextRebalanceRecord(c) ==
    IF c < Len(strategy_calls) THEN strategy_calls[c + 1].record
    ELSE Len(portfolio_records) + 1

\* C6: when the strategy returns an empty map the run does not raise, the
\* holdings become empty, and the recorded value is the same on every day from
\* that rebalance until the next rebalance.
C6_EmptyAllocationGoesFlat ==
    /\ strategy_calls # <<>> => pc # "raised"
    /\ \A c \in DOMAIN strategy_calls :
          strategy_calls[c].allocation = <<>> =>
              /\ holdings_log[strategy_calls[c].record] = <<>>
              /\ \A j \in strategy_calls[c].record .. (NextRebalanceRecord(c) - 1) :
                    /\ holdings_log[j] = <<>>
                    /\ portfolio_records[j].portfolio_value =
                          portfolio_records[strategy_calls[c].record].portfolio_value

\* A returned run in which the strategy was given a value above 0 and returned
\* an empty map, with two days recorded before the next rebalance.
C6_Witness ==
    /\ pc = "returned"
    /\ \E c \in DOMAIN strategy_calls :
          /\ strategy_calls[c].allocation = <<>>
          /\ RLess(RZero, strategy_calls[c].portfolio_value)
          /\ NextRebalanceRecord(c) > strategy_calls[c].record + 1
          /\ c < Len(strategy_calls)

\* C7: a call with an empty rebalance_dates list ends in an error, with no call
\* of the strategy and no series returned.
C7_EmptyRebalanceDatesAborts ==
    (rebalance_dates = <<>> /\ pc # "idle") =>
        /\ pc = "raised"
        /\ strategy_calls = <<>>
        /\ portfolio_records = <<>>
        /\ portfolio_history = <<>>

\* The call with the empty list has raised.
C7_Witness == rebalance_dates = <<>> /\ pc = "raised"

\* C8: the second of two calls with the same strategy, tables, rebalance dates,
\* initial funds and an equal shared context returns the series of the first.
C8_SecondRunReturnsSameSeries ==
    (run_no = 2 /\ pc = "returned") => portfolio_history = first_history

\* A second run that returned a series of several days after two rebalances.
C8_Witness ==
    /\ run_no = 2
    /\ pc = "returned"
    /\ Len(portfolio_history) >= 3
    /\ Len(strategy_calls) = 2
    /\ portfolio_history[1].portfolio_value # portfolio_history[3].portfolio_value

\* The tickers of an allocation that have a price > 0 on the date.
PricedAbove0(date, allocation) ==
    {t \in DOMAIN allocation :
        get_price(date, t) # None /\ RLess(RZero, get_price(date, t))}

\* C19: after each rebalance the holdings are exactly the tickers of the
\* allocation whose price of the day exists and is > 0, each with
\* weight * value / price shares; no other ticker stays.
C19_RebalanceReplacesHoldings ==
    \A c \in DOMAIN strategy_calls :
        LET call == strategy_calls[c]
            held == holdings_log[call.record]
        IN  /\ DOMAIN held = PricedAbove0(call.date, call.allocation)
            /\ \A t \in DOMAIN held :
                  RMul(held[t], get_price(call.date, t)) =
                      RMul(call.allocation[t], call.portfolio_value)

\* A rebalance that skips a ticker without a valid price and buys another,
\* and a later one that drops a ticker held before it and buys another.
C19_Witness ==
    /\ pc = "returned"
    /\ \E c \in DOMAIN strategy_calls :
          LET call == strategy_calls[c]
          IN  /\ holdings_log[call.record] # <<>>
              /\ DOMAIN call.allocation # PricedAbove0(call.date, call.allocation)
    /\ \E c \in DOMAIN strategy_calls :
          LET call == strategy_calls[c]
          IN  /\ call.record > 1
              /\ holdings_log[call.record] # <<>>
              /\ \E t \in DOMAIN holdings_log[call.record - 1] :
                    t \notin DOMAIN call.allocation

\* C20: a step of the loop on a trading day that is not a rebalance date
\* leaves the holdings, the value last handed to the strategy and the
\* strategy's call log as they are, and appends the day's mark-to-market
\* value of those holdings to the records.
C20_OtherDaysLeaveHoldings ==
    [][(/\ pc = "loop"
        /\ day_index <= Len(trading_days)
        /\ day_index' = day_index + 1
        /\ trading_days[day_index] \notin Range(rebalance_dates))
       => /\ holdings' = holdings
          /\ portfolio_value' = portfolio_value
          /\ strategy_calls' = strategy_calls
          /\ first_rebalance_done' = first_rebalance_done
          /\ portfolio_records' = Append(portfolio_records,
                 [date |-> trading_days[day_index],
                  portfolio_value |->
                      compute_portfolio_value(trading_days[day_index], holdings)])]_vars

\* A day that is not a rebalance date was recorded with shares held, at a
\* value other than that of the day before.
C20_Witness ==
    \E i \in DOMAIN portfolio_records :
        /\ i > 1
        /\ portfolio_records[i].date \notin Range(rebalance_dates)
        /\ holdings_log[i] # <<>>
        /\ holdings_log[i] = holdings_log[i - 1]
        /\ portfolio_records[i].portfolio_value # portfolio_records[i - 1].portfolio_value

\* The weights the engine is meant to warn about: one below 0, or a sum above 1.
InvalidWeights(allocation) ==
    \/ \E t \in DOMAIN allocation : RLess(allocation[t], RZero)
    \/ RLess(RInt(1), WeightSum(allocation))

InvalidWeightsCalls == {c \in DOMAIN strategy_calls : InvalidWeights(strategy_calls[c].allocation)}

\* C21: a run whose strategy returned a negative weight or weights summing to
\* more than 1 does not raise; each ticker of such a map with a price > 0 holds
\* exactly weight * value / price shares after the rebalance, the weight taken
\* as returned; and the run returns a record for every trading day.
C21_InvalidWeightsAreExecuted ==
    InvalidWeightsCalls # {} =>
        /\ pc # "raised"
        /\ \A c \in InvalidWeightsCalls :
              LET call == strategy_calls[c]
              IN  \A t \in PricedAbove0(call.date, call.allocation) :
                      /\ t \in DOMAIN holdings_log[call.record]
                      /\ holdings_log[call.record][t] =
                            RDiv(RMul(call.allocation[t], call.portfolio_value),
                                 get_price(call.date, t))
        /\ (pc = "loop" /\ day_index > Len(trading_days)) => portfolio_records # <<>>
        /\ pc = "returned" => DatesOf(portfolio_history) = trading_days

\* A returned run with a rebalance that left a negative number of shares of a
\* ticker, and a rebalance whose day was recorded at twice the value handed
\* to the strategy.
C21_Witness ==
    /\ pc = "returned"
    /\ \E c \in InvalidWeightsCalls :
          \E t \in DOMAIN holdings_log[strategy_calls[c].record] :
              RLess(holdings_log[strategy_calls[c].record][t], RZero)
    /\ \E c \in InvalidWeightsCalls :
          /\ RLess(RInt(1), WeightSum(strategy_calls[c].allocation))
          /\ RLess(RZero, strategy_calls[c].portfolio_value)
          /\ portfolio_records[strategy_calls[c].record].portfolio_value =
                RMul(RInt(2), strategy_calls[c].portfolio_value)

-----------------------------------------------------------------------------
(* The end-to-end scenario: A flat at 10, B rising linearly from 10 to 20 *)

ScenarioDays == 100
LastDay == ScenarioDays - 1
ScenarioDates == 0 .. LastDay
ScenarioTickers == {MARKET_PROXY, "A", "B"}

\* The proxy gives the calendar: a row on each of the days.
ScenarioProxies ==
    [k \in ScenarioDates \X ScenarioTickers |->
        IF k[2] = MARKET_PROXY THEN RInt(1) ELSE NoRow]

\* A closes at 10 on every day, B at 10 + 10 * day / LastDay.
ScenarioStocks ==
    [k \in ScenarioDates \X ScenarioTickers |->
        IF k[2] = "A" THEN RInt(10)
        ELSE IF k[2] = "B" THEN Rat(10 * LastDay + 10 * k[1], LastDay)
        ELSE NoRow]

HalfHalf == ("A" :> Half) @@ ("B" :> Half)

\* One rebalance date at day 0, or day 0 and one later day.
ScenarioRebalanceLists == {<<0>>} \cup {<<0, k>> : k \in 1 .. LastDay}

InitScenario ==
    /\ pc = "idle"
    /\ proxies_df = ScenarioProxies
    /\ top_stocks_df = ScenarioStocks
    /\ rebalance_dates \in ScenarioRebalanceLists
    /\ initial_funds = RInt(100000)
    /\ strategy_func = {HalfHalf}
    /\ data_dict = FreshDataDict
    /\ trading_days = <<>>
    /\ day_index = 0
    /\ portfolio_value = RZero
    /\ holdings = <<>>
    /\ first_rebalance_done = FALSE
    /\ portfolio_records = <<>>
    /\ portfolio_history = <<>>
    /\ strategy_calls = <<>>
    /\ holdings_log = <<>>
    /\ memo = <<>>
    /\ run_no = 1
    /\ first_history = <<>>
    /\ cal = NoCal
    /\ ind = NoInd
    /\ stg = NoStg
    /\ met = NoMet
    /\ ref = NoRef

NextScenario == Call \/ Rebalance \/ MarkToMarket \/ Return

SpecScenario == InitScenario /\ [][NextScenario]_vars

\* utils/metrics.py, compute_performance_metrics: final / initial - 1.
TotalReturn(ph) ==
    RAdd(RDiv(ph[Len(ph)].portfolio_value, ph[1].portfolio_value), RInt(-1))

FiveThousandEach == ("A" :> RInt(5000)) @@ ("B" :> RInt(5000))

\* C9, as claimed: with the single rebalance date day 0 the run holds 5000 A
\* and 5000 B and its series gives 150000 at the last day, total return 0.5.
C9_SingleRebalanceReachesLastDay ==
    (pc = "returned" /\ rebalance_dates = <<0>>) =>
        /\ holdings = FiveThousandEach
        /\ \E i \in DOMAIN portfolio_history :
              /\ portfolio_history[i].date = LastDay
              /\ portfolio_history[i].portfolio_value = RInt(150000)
        /\ TotalReturn(portfolio_history) = Half

\* C9, amended: with the single rebalance date day 0 the run holds 5000 A and
\* 5000 B, worth 150000 at the last day's prices, but its series is the day-0
\* record alone (100000, total return 0); with rebalance dates day 0 and the
\* last day the holdings are 5000 and 5000 on every day before the last, and
\* the series gives 150000 at the last day, total return 0.5.
C9_ScenarioValues ==
    pc = "returned" =>
        /\ rebalance_dates = <<0>> =>
              /\ holdings = FiveThousandEach
              /\ compute_portfolio_value(LastDay, holdings) = RInt(150000)
              /\ portfolio_history = <<[date |-> 0, portfolio_value |-> RInt(100000)]>>
              /\ TotalReturn(portfolio_history) = RZero
        /\ rebalance_dates = <<0, LastDay>> =>
              /\ \A i \in 1 .. LastDay : holdings_log[i] = FiveThousandEach
              /\ Len(portfolio_history) = ScenarioDays
              /\ portfolio_history[ScenarioDays] =
                    [date |-> LastDay, portfolio_value |-> RInt(150000)]
              /\ TotalReturn(portfolio_history) = Half

\* The run with the single rebalance date has returned, holding 5000 of each.
C9_Witness ==
    /\ pc = "returned"
    /\ rebalance_dates = <<0>>
    /\ holdings = FiveThousandEach
    /\ Len(portfolio_history) = 1

-----------------------------------------------------------------------------
(* run_backtest on three rebalance dates and on tables that share a ticker *)

\* The proxy table has a row of the market proxy on every date and may also
\* hold rows of the stock A (closing at 3); the universe table is one of
\* StockTables; the list names the dates 1 and 2 and a last date, or only the
\* date 1 and a last date.
InitWide ==
    /\ pc = "idle"
    /\ proxies_df \in
          {[k \in RowKeys |-> IF k[2] = MARKET_PROXY THEN RInt(k[1])
                              ELSE IF k[2] = "A" /\ holds_A THEN RInt(3) ELSE NoRow] :
              holds_A \in BOOLEAN}
    /\ top_stocks_df \in StockTables
    /\ rebalance_dates \in {<<1, 2, 3>>, <<1, 2, MaxDate + 1>>, <<1, MaxDate + 1>>}
    /\ initial_funds = RInt(4)
    /\ strategy_func = Allocations
    /\ data_dict = FreshDataDict
    /\ trading_days = <<>>
    /\ day_index = 0
    /\ portfolio_value = RZero
    /\ holdings = <<>>
    /\ first_rebalance_done = FALSE
    /\ portfolio_records = <<>>
    /\ portfolio_history = <<>>
    /\ strategy_calls = <<>>
    /\ holdings_log = <<>>
    /\ memo = <<>>
    /\ run_no = 1
    /\ first_history = <<>>
    /\ cal = NoCal
    /\ ind = NoInd
    /\ stg = NoStg
    /\ met = NoMet
    /\ ref = NoRef

SpecWide == InitWide /\ [][NextScenario]_vars

\* The close of the ticker's row of the date in the table, or None.
CloseIn(df, date, ticker) == IF df[<<date, ticker>>] = NoRow THEN None ELSE df[<<date, ticker>>]

\* The closes a lookup in "whichever table contains the ticker" can give.
ClosesInEitherTable(date, ticker) ==
    {CloseIn(proxies_df, date, ticker), CloseIn(top_stocks_df, date, ticker)} \ {None}

HeldBefore(c) ==
    IF strategy_calls[c].record = 1 THEN <<>> ELSE holdings_log[strategy_calls[c].record - 1]

\* C27: every recorded value is the sum of shares x price of the holdings of
\* that day; at every rebalance after the first the strategy is handed
\* exactly the sum of shares x price, on that date, of the holdings it finds;
\* and once it was handed 0, every value recorded from then on is 0.
C27_ValueIsHoldingsOnly ==
    /\ \A i \in DOMAIN portfolio_records :
          portfolio_records[i].portfolio_value =
              PricedWorth(RecordDates[i], holdings_log[i], Tickers)
    /\ \A c \in DOMAIN strategy_calls :
          c > 1 =>
              /\ strategy_calls[c].portfolio_value =
                    PricedWorth(strategy_calls[c].date, HeldBefore(c), Tickers)
              /\ strategy_calls[c].portfolio_value = RZero =>
                    \A j \in DOMAIN portfolio_records :
                        j >= strategy_calls[c].record =>
                            portfolio_records[j].portfolio_value = RZero

\* A run of three rebalances: the second was handed half the value of the
\* first, which had put half into a stock whose price then stayed; an earlier
\* rebalance was handed 0 although the funds were above 0, and a day that is
\* no rebalance date on which the proxy has a price was recorded after it.
C27_Witness ==
    /\ pc = "returned"
    /\ Len(strategy_calls) = 3
    /\ \E c \in 2 .. 3 :
          /\ strategy_calls[c - 1].allocation = ("A" :> Half)
          /\ RLess(RZero, strategy_calls[c].portfolio_value)
          /\ strategy_calls[c].portfolio_value =
                RMul(Half, strategy_calls[c - 1].portfolio_value)
    /\ \E c \in 2 .. 3 :
          /\ strategy_calls[c].portfolio_value = RZero
          /\ strategy_calls[c].allocation # <<>>
          /\ RLess(RZero, initial_funds)

\* C28: at a rebalance after the first, a held ticker without a price row on
\* the date adds nothing to the value handed to the strategy and is not in
\* the holdings after the rebalance; until the next rebalance it stays out
\* and every recorded value is that of the other holdings alone, also on
\* days where the ticker has a price again.
C28_UnpricedPositionIsLost ==
    \A c \in DOMAIN strategy_calls : \A t \in DOMAIN HeldBefore(c) :
        (c > 1 /\ get_price(strategy_calls[c].date, t) = None) =>
            /\ strategy_calls[c].portfolio_value =
                  PricedWorth(strategy_calls[c].date, HeldBefore(c), Tickers \ {t})
            /\ \A j \in strategy_calls[c].record .. (NextRebalanceRecord(c) - 1) :
                  /\ t \notin DOMAIN holdings_log[j]
                  /\ portfolio_records[j].portfolio_value =
                        PricedWorth(RecordDates[j], holdings_log[strategy_calls[c].record],
                                    Tickers \ {t})

\* A stock was held and worth something, had no price row on the second
\* rebalance date, where the strategy was handed 0 and asked for it again, and
\* has a price on a later day recorded at 0.
C28_Witness ==
    \E c \in DOMAIN strategy_calls : \E t \in DOMAIN HeldBefore(c) :
        /\ c > 1
        /\ RLess(RZero, HeldBefore(c)[t])
        /\ get_price(strategy_calls[c].date, t) = None
        /\ strategy_calls[c].portfolio_value = RZero
        /\ t \in DOMAIN strategy_calls[c].allocation
        /\ \E j \in DOMAIN portfolio_records :
              /\ j > strategy_calls[c].record
              /\ j < NextRebalanceRecord(c)
              /\ get_price(RecordDates[j], t) # None
              /\ RLess(RZero, get_price(RecordDates[j], t))
              /\ portfolio_records[j].portfolio_value = RZero

-----------------------------------------------------------------------------
(* get_rebalance_dates (utils/calendar_utils.py) *)

\* Dates are proleptic Gregorian ordinals (date.toordinal(): 0001-01-01 is 1).
Ordinal(y, m, d) ==
    LET yy == IF m <= 2 THEN y - 1 ELSE y
        era == yy \div 400
        yoe == yy - era * 400
        mp == (m + 9) % 12
        doy == (153 * mp + 2) \div 5 + d - 1
        doe == yoe * 365 + yoe \div 4 - yoe \div 100 + doy
    IN  era * 146097 + doe - 305

\* <<year, month, day>> of an ordinal.
Civil(o) ==
    LET z == o + 305
        era == z \div 146097
        doe == z - era * 146097
        yoe == (doe - doe \div 1460 + doe \div 36524 - doe \div 146096) \div 365
        doy == doe - (365 * yoe + yoe \div 4 - yoe \div 100)
        mp == (5 * doy + 2) \div 153
        d == doy - (153 * mp + 2) \div 5 + 1
        m == IF mp < 10 THEN mp + 3 ELSE mp - 9
        y == yoe + era * 400 + (IF m <= 2 THEN 1 ELSE 0)
    IN  <<y, m, d>>

\* .dt.year and .dt.month
YearOf(o) == Civil(o)[1]
MonthOf(o) == Civil(o)[2]

\* date.weekday(): Monday is 0.
Weekday(o) == (o + 6) % 7

\* .dt.isocalendar().week: the week of the ISO year that holds the Thursday of
\* the date's week.
IsoWeek(o) ==
    LET thursday == o - Weekday(o) + 3
    IN  (thursday - Ordinal(YearOf(thursday), 1, 1)) \div 7 + 1

\* Line 76: frequency.lower()
Lower(frequency) ==
    CASE frequency = "Weekly" -> "weekly"
      [] frequency = "DAILY" -> "daily"
      [] OTHER -> frequency

\* As GroupKey, but with a branch for "quarterly" and every other string
\* grouped by year.
GroupKeyDefaultYearly(frequency, o) ==
    IF frequency = "weekly" THEN <<YearOf(o), IsoWeek(o)>>
    ELSE IF frequency = "monthly" THEN <<YearOf(o), MonthOf(o)>>
    ELSE IF frequency = "quarterly" THEN <<YearOf(o), ((MonthOf(o) - 1) \div 3) + 1>>
    ELSE <<YearOf(o)>>

\* Lines 83-100: the group columns of a row; frequency is already lower case.
GroupKey(frequency, o) ==
    IF frequency = "weekly" THEN <<YearOf(o), IsoWeek(o)>>
    ELSE IF frequency = "monthly" THEN <<YearOf(o), MonthOf(o)>>
    ELSE IF frequency = "yearly" THEN <<YearOf(o)>>
    ELSE <<YearOf(o), ((MonthOf(o) - 1) \div 3) + 1>>

\* groupby sorts its keys: tuples in lexicographic order.
KeyBefore(a, b) ==
    \/ a[1] < b[1]
    \/ a[1] = b[1] /\ Len(a) > 1 /\ a[2] < b[2]

RECURSIVE SortedKeys(_)
SortedKeys(K) ==
    IF K = {} THEN <<>>
    ELSE LET k == CHOOSE x \in K : \A y \in K \ {x} : KeyBefore(x, y)
         IN  <<k>> \o SortedKeys(K \ {k})

\* As GroupedMax, but with the first date of each group.
GroupedMin(days, frequency) ==
    LET keys == SortedKeys({GroupKey(frequency, o) : o \in days})
    IN  [i \in DOMAIN keys |-> SetMin({o \in days : GroupKey(frequency, o) = keys[i]})]

\* Lines 102-103: groupby(group_cols)["date"].max(), one date per key, in key order.
GroupedMax(days, frequency) ==
    LET keys == SortedKeys({GroupKey(frequency, o) : o \in days})
    IN  [i \in DOMAIN keys |-> SetMax({o \in days : GroupKey(frequency, o) = keys[i]})]

NoDate == <<>>

\* Lines 63-67: the rows left by the start and end dates.
InPeriod(days, start_date, end_date) ==
    {o \in days : /\ (start_date # NoDate => o >= start_date[1])
                  /\ (end_date # NoDate => o <= end_date[1])}

\* Lines 56-105. market_proxy_df holds the rows of one ticker, one per date.
get_rebalance_dates(market_proxy_df, frequency, start_date, end_date) ==
    IF ~market_proxy_df.has_date THEN <<>>
    ELSE LET days == InPeriod(market_proxy_df.dates, start_date, end_date)
         IN  IF days = {} THEN <<>>
             ELSE IF Lower(frequency) = "daily" THEN SortedSeq(days)
             ELSE GroupedMax(days, Lower(frequency))

\* Trading days around two turns of the year, a quarter end among them.
CandidateDays ==
    { Ordinal(2023, 12, 29), Ordinal(2024, 1, 2), Ordinal(2024, 1, 5),
      Ordinal(2024, 1, 8), Ordinal(2024, 4, 1), Ordinal(2024, 12, 30),
      Ordinal(2024, 12, 31), Ordinal(2025, 1, 2) }

Frequencies == {"daily", "weekly", "monthly", "quarterly", "yearly", "Weekly", "fortnightly"}
SupportedFrequencies == {"daily", "weekly", "monthly", "quarterly", "yearly"}

CalendarFrames ==
    {[has_date |-> TRUE, dates |-> S] : S \in SUBSET CandidateDays}
        \cup {[has_date |-> FALSE, dates |-> {}]}

StartDates == {NoDate, <<Ordinal(2024, 1, 1)>>, <<Ordinal(2024, 1, 5)>>}
EndDates == {NoDate, <<Ordinal(2024, 12, 31)>>, <<Ordinal(2024, 12, 29)>>}

InitCalendar ==
    /\ cal \in [pc : {"idle"}, market_proxy_df : CalendarFrames, frequency : Frequencies,
                start_date : StartDates, end_date : EndDates, result : {<<>>}]
    /\ pc = "none"
    /\ proxies_df = <<>>
    /\ top_stocks_df = <<>>
    /\ rebalance_dates = <<>>
    /\ initial_funds = RZero
    /\ strategy_func = {}
    /\ data_dict = FreshDataDict
    /\ trading_days = <<>>
    /\ day_index = 0
    /\ portfolio_value = RZero
    /\ holdings = <<>>
    /\ first_rebalance_done = FALSE
    /\ portfolio_records = <<>>
    /\ portfolio_history = <<>>
    /\ strategy_calls = <<>>
    /\ holdings_log = <<>>
    /\ memo = <<>>
    /\ run_no = 1
    /\ first_history = <<>>
    /\ ind = NoInd
    /\ stg = NoStg
    /\ met = NoMet
    /\ ref = NoRef

backtest_vars == <<pc, proxies_df, top_stocks_df, rebalance_dates, initial_funds,
                   strategy_func, data_dict, trading_days, day_index, portfolio_value,
                   holdings, first_rebalance_done, portfolio_records, portfolio_history,
                   strategy_calls, holdings_log, memo, run_no, first_history>>

CalReturn ==
    /\ cal' = [cal EXCEPT !.pc = "returned",
                          !.result = get_rebalance_dates(cal.market_proxy_df, cal.frequency,
                                                         cal.start_date, cal.end_date)]
    /\ UNCHANGED <<backtest_vars, ind, stg, met, ref>>

\* Lines 56-71: no date column, or no trading day in the period: [] is returned.
CalReturnsNothing ==
    /\ cal.pc = "idle"
    /\ \/ ~cal.market_proxy_df.has_date
       \/ InPeriod(cal.market_proxy_df.dates, cal.start_date, cal.end_date) = {}
    /\ CalReturn

\* Lines 78-80: every trading day of the period.
CalReturnsDaily ==
    /\ cal.pc = "idle"
    /\ cal.market_proxy_df.has_date
    /\ InPeriod(cal.market_proxy_df.dates, cal.start_date, cal.end_date) # {}
    /\ Lower(cal.frequency) = "daily"
    /\ CalReturn

\* Lines 83-105: the last trading day of each group.
CalReturnsGrouped ==
    /\ cal.pc = "idle"
    /\ cal.market_proxy_df.has_date
    /\ InPeriod(cal.market_proxy_df.dates, cal.start_date, cal.end_date) # {}
    /\ Lower(cal.frequency) # "daily"
    /\ CalReturn

NextCalendar == CalReturnsNothing \/ CalReturnsDaily \/ CalReturnsGrouped

SpecCalendar == InitCalendar /\ [][NextCalendar]_vars

\* C10: for each of daily, weekly, monthly, quarterly and yearly, the returned
\* list is strictly ascending and each of its elements is a date of the
\* calendar within [start_date, end_date].
C10_SortedDatesOfCalendarInRange ==
    (cal.pc = "returned" /\ cal.frequency \in SupportedFrequencies) =>
        /\ StrictlyAscending(cal.result)
        /\ \A i \in DOMAIN cal.result :
              cal.result[i] \in InPeriod(cal.market_proxy_df.dates, cal.start_date, cal.end_date)

\* The trading days of the call's calendar within its period.
CalDays == InPeriod(cal.market_proxy_df.dates, cal.start_date, cal.end_date)

\* The calendar quarter of a date: January to March is 1.
QuarterOf(o) == <<YearOf(o), (MonthOf(o) + 2) \div 3>>

\* C11: with 'daily' the result holds exactly the trading days in range, each
\* once; with 'quarterly' it holds exactly one date for each (year, quarter)
\* that has a trading day in range, the latest trading day of that quarter.
C11_DailyAllDaysQuarterlyLastOfQuarter ==
    (cal.pc = "returned" /\ cal.market_proxy_df.has_date) =>
        /\ cal.frequency = "daily" =>
              /\ Range(cal.result) = CalDays
              /\ Len(cal.result) = Cardinality(CalDays)
        /\ cal.frequency = "quarterly" =>
              /\ Len(cal.result) = Cardinality({QuarterOf(o) : o \in CalDays})
              /\ \A o \in CalDays :
                    \E i \in DOMAIN cal.result :
                        /\ QuarterOf(cal.result[i]) = QuarterOf(o)
                        /\ cal.result[i] \in CalDays
                        /\ cal.result[i] >= o
              /\ Range(cal.result) \subseteq CalDays

\* A quarterly call has returned over a calendar of several quarters, one of
\* them with more than one trading day in range.
C11_Witness ==
    /\ cal.pc = "returned"
    /\ cal.frequency = "quarterly"
    /\ Len(cal.result) >= 3
    /\ \E o1, o2 \in CalDays : o1 # o2 /\ QuarterOf(o1) = QuarterOf(o2)

\* The ISO year and week of a date: those of the Thursday of its week.
IsoYearWeek(o) == <<YearOf(o - Weekday(o) + 3), IsoWeek(o)>>

\* C12: with 'weekly' the result holds, for every (ISO year, ISO week) that
\* has a trading day in range, the last trading day of that ISO week, and no
\* other date.
C12_WeeklyLastDayOfIsoWeek ==
    (cal.pc = "returned" /\ cal.market_proxy_df.has_date /\ cal.frequency = "weekly") =>
        Range(cal.result) =
            {SetMax({o2 \in CalDays : IsoYearWeek(o2) = IsoYearWeek(o)}) : o \in CalDays}

\* The five frequencies are matched after lower-casing.
KnownFrequency(frequency) == Lower(frequency) \in SupportedFrequencies

\* C13, as claimed: a frequency string that is none of the five strings gives
\* the list of a 'quarterly' call on the same calendar and range.
C13_OtherStringsAreQuarterly ==
    (cal.pc = "returned" /\ cal.frequency \notin SupportedFrequencies) =>
        cal.result = get_rebalance_dates(cal.market_proxy_df, "quarterly",
                                         cal.start_date, cal.end_date)

\* C13, amended: a frequency string that, lower-cased, is none of the five
\* strings gives the list of a 'quarterly' call on the same calendar and range.
C13_UnknownFrequencyIsQuarterly ==
    (cal.pc = "returned" /\ ~KnownFrequency(cal.frequency)) =>
        cal.result = get_rebalance_dates(cal.market_proxy_df, "quarterly",
                                         cal.start_date, cal.end_date)

\* A call with an unknown frequency has returned the ends of several quarters,
\* which are not the ends of the years.
C13_Witness ==
    /\ cal.pc = "returned"
    /\ ~KnownFrequency(cal.frequency)
    /\ Len(cal.result) >= 3
    /\ \E i, j \in DOMAIN cal.result : i # j /\ YearOf(cal.result[i]) = YearOf(cal.result[j])

-----------------------------------------------------------------------------
(* calculate_canslim_indicators (strategies/canslim_calculator.py) *)

MaxIndDate == 3

\* Defaults of criteria_config (lines 214-222) and the windows of calculate_m.
SHORT_MA == 50
LONG_MA == 200
N_lookback_period == 252
VOL_AVG_WINDOW == 50
I_lookback_period == 50
quarterly_growth_threshold == Rat(1, 10)
annual_growth_threshold == Rat(1, 10)
volume_factor == Rat(5, 4)
return_diff_threshold == RZero
ad_ratio_threshold == Rat(5, 4)
use_ma_cross == TRUE

IndDates == 1 .. MaxIndDate

\* The daily bars a stock can show: a flat day, and a day that closes at its
\* high on three times the volume.
QuietBar == [close |-> 10, open |-> 10, high |-> 10, low |-> 10, volume |-> 100]
UpBar == [close |-> 12, open |-> 10, high |-> 12, low |-> 10, volume |-> 300]
Bars == {QuietBar, UpBar}

\* The filings a ticker can have with one end_date: fiscal_year follows the
\* end_date, fiscal_period is the same quarter each year ("FY" for annual).
Filings == [timeframe : {"quarterly", "annual"}, diluted_eps : {1, 2}]

\* The rows of financials_df for such filings, f[e] being the filing that ends
\* at e: one row per (timeframe, fiscal_year, fiscal_period).
FilingRows(f) ==
    {[end_date |-> e, timeframe |-> f[e].timeframe, fiscal_year |-> e,
      fiscal_period |-> IF f[e].timeframe = "quarterly" THEN "Q1" ELSE "FY",
      diluted_eps |-> f[e].diluted_eps] : e \in {x \in DOMAIN f : f[x] # NoRow}}

\* The dates that have a row in a frame.
RowDates(df) == {d \in DOMAIN df : df[d] # NoRow}

\* shift(1) in a frame sorted by date: the date of the row before d, 0 if none.
PrevDate(dates, d) ==
    IF \E e \in dates : e < d THEN SetMax({e \in dates : e < d}) ELSE 0

\* As Window, but centred: the window of a row reaches one row past it.
WindowCentered(dates, d, n) ==
    {e \in dates : \/ e <= d /\ Cardinality({f \in dates : e < f /\ f <= d}) < n
                   \/ e > d /\ Cardinality({f \in dates : d < f /\ f < e}) = 0}

\* rolling(n, min_periods=1): the rows of the window that ends at d.
Window(dates, d, n) ==
    {e \in dates : e <= d /\ Cardinality({f \in dates : e < f /\ f <= d}) < n}

\* The sum of the column f over the rows S (dates), halving S at each step.
RECURSIVE RSum(_, _)
RSum(f, S) ==
    IF S = {} THEN RZero
    ELSE IF SetMin(S) = SetMax(S) THEN f[SetMin(S)]
    ELSE LET mid == (SetMin(S) + SetMax(S)) \div 2
         IN  RAdd(RSum(f, {x \in S : x <= mid}), RSum(f, {x \in S : x > mid}))

\* .rolling(n, min_periods=1).mean() at d of the column f over the rows dates.
RollingMean(f, dates, d, n) ==
    LET w == Window(dates, d, n)
    IN  RDiv(RSum(f, w), RInt(Cardinality(w)))

\* .rolling(n, min_periods=1).max() at d of the integer column f.
RollingMax(f, dates, d, n) == SetMax({f[e] : e \in Window(dates, d, n)})

\* .pct_change().fillna(0) at d of the column close over the rows dates.
pct_change(close, dates, d) ==
    LET p == PrevDate(dates, d)
    IN  IF p = 0 THEN RZero
        ELSE RAdd(RDiv(RInt(close[d]), RInt(close[p])), RInt(-1))

\* As calculate_m, comparing the means with >= instead of >.
calculate_m_not_strict(market, ma_cross, d) ==
    LET close == [e \in DOMAIN market |-> RInt(market[e])]
    IN  IF ma_cross
        THEN RLeq(RollingMean(close, DOMAIN market, d, LONG_MA),
                  RollingMean(close, DOMAIN market, d, SHORT_MA))
        ELSE TRUE

\* Lines 26-36 (calculate_m): M of the market row at d, the rows being those
\* of market; ma_cross is criteria_config["M"]["use_ma_cross"].
calculate_m(market, ma_cross, d) ==
    LET close == [e \in DOMAIN market |-> RInt(market[e])]
    IN  IF ma_cross
        THEN RLess(RollingMean(close, DOMAIN market, d, LONG_MA),
                   RollingMean(close, DOMAIN market, d, SHORT_MA))
        ELSE TRUE

\* Lines 140-147 (calc_ad_value).
calc_ad_value(row) ==
    IF row.high = row.low THEN RZero
    ELSE RMul(Rat((row.close - row.low) - (row.high - row.close), row.high - row.low),
              RInt(row.volume))

\* Lines 60-64 and 70-71: growth over the previous year's EPS against a
\* threshold. The division is a float division: by 0 it gives +inf for a
\* numerator above 0 (at least any threshold), -inf below 0 and NaN for 0 / 0
\* (both compare False).
GrowthAtLeast(eps, prev_year_eps, threshold) ==
    IF prev_year_eps = 0 THEN eps - prev_year_eps > 0
    ELSE RLeq(threshold, Rat(eps - prev_year_eps, Abs(prev_year_eps)))

\* Lines 56-64 and 67-71: the flag of the row r. prev_year_eps is shift(1) in
\* r's group, sorted by fiscal_year: the group is (ticker, fiscal_period) for
\* a quarterly row and ticker for an annual row; the first row of a group has
\* none (NaN compares False).
FilingFlag(financials_df, r, threshold) ==
    LET group == {x \in financials_df :
                     /\ x.timeframe = r.timeframe
                     /\ r.timeframe = "quarterly" => x.fiscal_period = r.fiscal_period}
        before == {x \in group : x.fiscal_year < r.fiscal_year}
    IN  IF before = {} THEN FALSE
        ELSE LET prev == CHOOSE x \in before : \A y \in before : y.fiscal_year <= x.fiscal_year
             IN  GrowthAtLeast(r.diluted_eps, prev.diluted_eps, threshold)

\* As compute_c_a_from_financials, each flag carried forward from the latest
\* filing of its own timeframe.
compute_c_a_carried_forward(financials_df) ==
    [e \in IndDates |->
        IF \A r \in financials_df : r.end_date # e THEN NoRow
        ELSE LET q == {r \in financials_df : r.end_date <= e /\ r.timeframe = "quarterly"}
                 a == {r \in financials_df : r.end_date <= e /\ r.timeframe = "annual"}
             IN  [C |-> \E r \in q : /\ \A x \in q : x.end_date <= r.end_date
                                      /\ FilingFlag(financials_df, r, quarterly_growth_threshold),
                  A |-> \E r \in a : /\ \A x \in a : x.end_date <= r.end_date
                                      /\ FilingFlag(financials_df, r, annual_growth_threshold)]]

\* Lines 40-82: ca_df, one row per end_date with the C of the quarterly row
\* and the A of the annual row that end there (a ticker has at most one of
\* each per end_date); a flag without a row of its timeframe is filled with
\* False.
compute_c_a_from_financials(financials_df) ==
    [e \in IndDates |->
        IF \A r \in financials_df : r.end_date # e THEN NoRow
        ELSE [C |-> \E r \in financials_df :
                        /\ r.end_date = e
                        /\ r.timeframe = "quarterly"
                        /\ FilingFlag(financials_df, r, quarterly_growth_threshold),
              A |-> \E r \in financials_df :
                        /\ r.end_date = e
                        /\ r.timeframe = "annual"
                        /\ FilingFlag(financials_df, r, annual_growth_threshold)]]

NoFlags == [C |-> FALSE, A |-> FALSE]

\* As merge_asof, but with direction="forward": the first filing on or after d.
merge_asof_forward(ca_df, d) ==
    LET known == {e \in RowDates(ca_df) : e >= d}
    IN  IF known = {} THEN NoFlags ELSE ca_df[SetMin(known)]

\* Lines 184-200: the C and A of the price row at d, from the last ca_df row
\* with end_date <= d; False without one.
merge_asof(ca_df, d) ==
    LET known == {e \in RowDates(ca_df) : e <= d}
    IN  IF known = {} THEN NoFlags ELSE ca_df[SetMax(known)]

\* Lines 161-205: C and A for each price row.
merge_ca_into_top_stocks(top, ca_df) ==
    [d \in IndDates |-> IF top[d] = NoRow THEN NoRow ELSE merge_asof(ca_df, d)]

\* Lines 84-159 and 248-257: the row of calculate_nsli at d, with M merged in.
calculate_nsli(top, market, d) ==
    LET dates == RowDates(top)
        close == [e \in IndDates |-> IF top[e] = NoRow THEN 0 ELSE top[e].close]
        volume == [e \in IndDates |-> IF top[e] = NoRow THEN RZero ELSE RInt(top[e].volume)]
        ad_value == [e \in IndDates |-> IF top[e] = NoRow THEN RZero ELSE calc_ad_value(top[e])]
        stock_return == pct_change(close, dates, d)
        market_return == pct_change(market, IndDates, d)
        high == RollingMax(close, dates, d, N_lookback_period)
        vol_avg == RollingMean(volume, dates, d, VOL_AVG_WINDOW)
        AD_ratio == RollingMean(ad_value, dates, d, I_lookback_period)
    IN  [stock_return |-> stock_return,
         high_52_week |-> high,
         N |-> close[d] >= high,
         vol_avg_50_day |-> vol_avg,
         S |-> RLeq(RMul(vol_avg, volume_factor), volume[d]),
         L |-> RLess(return_diff_threshold,
                     RAdd(stock_return, RMul(RInt(-1), market_return))),
         AD_ratio |-> AD_ratio,
         I |-> RLeq(ad_ratio_threshold, AD_ratio),
         M |-> calculate_m(market, use_ma_cross, d)]

\* Lines 207-333: the indicator row of each price row of the stock.
calculate_canslim_indicators(market, top, financials_df) ==
    LET ca == merge_ca_into_top_stocks(top, compute_c_a_from_financials(financials_df))
    IN  [d \in IndDates |->
            IF top[d] = NoRow THEN NoRow
            ELSE LET r == calculate_nsli(top, market, d)
                 IN  [stock_return |-> r.stock_return, high_52_week |-> r.high_52_week,
                      N |-> r.N, vol_avg_50_day |-> r.vol_avg_50_day, S |-> r.S,
                      L |-> r.L, AD_ratio |-> r.AD_ratio, I |-> r.I, M |-> r.M,
                      C |-> ca[d].C, A |-> ca[d].A,
                      CANSLI_all |-> ca[d].C /\ ca[d].A /\ r.N /\ r.S /\ r.L /\ r.I]]

\* The market proxy closes at 10 or 11; its first row closes at 10.
ProxyCloses == {10, 11}
ProxyFrames == {m \in [IndDates -> ProxyCloses] : m[1] = 10}
StockFrames == [IndDates -> Bars \cup {NoRow}]
FinancialFrames == {FilingRows(f) : f \in [IndDates -> Filings \cup {NoRow}]}

\* A flat market, a stock with a flat day on every date but at most one, and
\* a ticker that files a quarterly report on every date, its EPS doubling
\* after the first.
FlatProxy == [d \in IndDates |-> 10]
QuietFrames ==
    {[d \in IndDates |-> IF d = gap THEN NoRow ELSE QuietBar] : gap \in 0 .. MaxIndDate}
GrowingFinancials ==
    FilingRows([d \in IndDates |->
                   [timeframe |-> "quarterly", diluted_eps |-> IF d = 1 THEN 1 ELSE 2]])

\* The tables of a call: any prices with the growing filings, or any filings
\* with quiet prices.
IndicatorInputs ==
    [proxies_df : ProxyFrames, top_stocks_df : StockFrames,
     financials_df : {GrowingFinancials}]
    \cup [proxies_df : {FlatProxy}, top_stocks_df : QuietFrames,
          financials_df : FinancialFrames]

all_but_ind == <<backtest_vars, cal, stg, met, ref>>

InitIndicators ==
    /\ \E in \in IndicatorInputs :
          ind = [pc |-> "idle", proxies_df |-> in.proxies_df,
                 top_stocks_df |-> in.top_stocks_df, financials_df |-> in.financials_df,
                 result |-> <<>>, first_result |-> <<>>, altered_date |-> 0]
    /\ pc = "none"
    /\ proxies_df = <<>>
    /\ top_stocks_df = <<>>
    /\ rebalance_dates = <<>>
    /\ initial_funds = RZero
    /\ strategy_func = {}
    /\ data_dict = FreshDataDict
    /\ trading_days = <<>>
    /\ day_index = 0
    /\ portfolio_value = RZero
    /\ holdings = <<>>
    /\ first_rebalance_done = FALSE
    /\ portfolio_records = <<>>
    /\ portfolio_history = <<>>
    /\ strategy_calls = <<>>
    /\ holdings_log = <<>>
    /\ memo = <<>>
    /\ run_no = 1
    /\ first_history = <<>>
    /\ cal = NoCal
    /\ stg = NoStg
    /\ met = NoMet
    /\ ref = NoRef

\* The call on the tables as given.
IndCall ==
    /\ ind.pc = "idle"
    /\ LET r == calculate_canslim_indicators(ind.proxies_df, ind.top_stocks_df,
                                             ind.financials_df)
       IN  ind' = [ind EXCEPT !.pc = "returned", !.result = r, !.first_result = r]
    /\ UNCHANGED all_but_ind

\* A second call, on the same tables but for the stock row of one date, which
\* is altered, added or removed.
IndCallOtherPrice ==
    /\ ind.pc = "returned"
    /\ \E d \in IndDates :
         \E row \in (Bars \cup {NoRow}) \ {ind.top_stocks_df[d]} :
            LET top == [ind.top_stocks_df EXCEPT ![d] = row]
            IN  ind' = [ind EXCEPT !.pc = "compared", !.top_stocks_df = top,
                           !.altered_date = d,
                           !.result = calculate_canslim_indicators(ind.proxies_df, top,
                                                                   ind.financials_df)]
    /\ UNCHANGED all_but_ind

\* A second call, on the same tables but for the proxy row of one date.
IndCallOtherProxy ==
    /\ ind.pc = "returned"
    /\ \E d \in IndDates :
         \E close \in ProxyCloses \ {ind.proxies_df[d]} :
            LET market == [ind.proxies_df EXCEPT ![d] = close]
            IN  ind' = [ind EXCEPT !.pc = "compared", !.proxies_df = market,
                           !.altered_date = d,
                           !.result = calculate_canslim_indicators(market, ind.top_stocks_df,
                                                                   ind.financials_df)]
    /\ UNCHANGED all_but_ind

\* A second call, on the same tables but for the filing that ends at one
\* date, which is altered, added or removed.
IndCallOtherFiling ==
    /\ ind.pc = "returned"
    /\ \E d \in IndDates :
         \E filing \in Filings \cup {NoRow} :
            LET fin == {r \in ind.financials_df : r.end_date # d}
                           \cup FilingRows(d :> filing)
            IN  /\ fin # ind.financials_df
                /\ ind' = [ind EXCEPT !.pc = "compared", !.financials_df = fin,
                               !.altered_date = d,
                               !.result = calculate_canslim_indicators(ind.proxies_df,
                                                                       ind.top_stocks_df, fin)]
    /\ UNCHANGED all_but_ind

NextIndicators == IndCall \/ IndCallOtherPrice \/ IndCallOtherProxy \/ IndCallOtherFiling

SpecIndicators == InitIndicators /\ [][NextIndicators]_vars

\* The filings of the call that end on or before d.
FiledBy(d) == {e \in {r.end_date : r \in ind.financials_df} : e <= d}

\* C14: a price row dated d has C and A False when the ticker has no filing
\* with end_date <= d, and otherwise carries the C and A of one of the filings
\* with end_date <= d, never those of a filing that ends after d.
C14_FlagsComeFromFilingsOnOrBefore ==
    ind.pc \in {"returned", "compared"} =>
        \A d \in RowDates(ind.top_stocks_df) :
            LET ca_df == compute_c_a_from_financials(ind.financials_df)
                flags == [C |-> ind.result[d].C, A |-> ind.result[d].A]
            IN  /\ FiledBy(d) = {} => flags = NoFlags
                /\ FiledBy(d) # {} => \E e \in FiledBy(d) : flags = ca_df[e]

\* A price row before the ticker's first filing, and a later filing whose C is
\* True and reaches the price row of its end_date.
C14_Witness ==
    /\ ind.pc = "returned"
    /\ \E d, e \in RowDates(ind.top_stocks_df) :
          /\ d < e
          /\ FiledBy(d) = {}
          /\ e \in FiledBy(e)
          /\ compute_c_a_from_financials(ind.financials_df)[e].C
          /\ ind.result[e].C
          /\ ~ind.result[d].C

\* C15: the indicator row of every date d is the same after a stock row, a
\* proxy row or a filing dated after d was altered, added or removed.
C15_RowsBeforeAlteredDateUnchanged ==
    ind.pc = "compared" =>
        \A d \in IndDates : d < ind.altered_date => ind.result[d] = ind.first_result[d]

\* Data of a later date was changed, the row of that date came out different,
\* and the row of the date before it passes the volume and the quarterly
\* earnings checks.
C15_Witness ==
    /\ ind.pc = "compared"
    /\ ind.altered_date > 1
    /\ ind.result[ind.altered_date] # ind.first_result[ind.altered_date]
    /\ ind.result[ind.altered_date - 1] # NoRow
    /\ ind.result[ind.altered_date - 1].S
    /\ ind.result[ind.altered_date - 1].C

-----------------------------------------------------------------------------
(* compute_c_a_from_financials on filings of two quarters and of both timeframes *)

\* A flat market, a stock with a flat day on every date, and a ticker that
\* has, for each end_date, at most one quarterly filing (of Q1 with an EPS of
\* 0, 1 or 2, or of Q2 with an EPS of 1) and at most one annual filing (with
\* an EPS of 0, 1 or 2); the fiscal year of a filing is its end_date.
InitFinancials ==
    /\ \E q \in [IndDates -> {NoRow} \cup [fiscal_period : {"Q1"}, diluted_eps : 0 .. 2]
                                       \cup [fiscal_period : {"Q2"}, diluted_eps : {1}]] :
       \E a \in [IndDates -> {NoRow} \cup [fiscal_period : {"FY"}, diluted_eps : 0 .. 2]] :
          ind = [pc |-> "idle", proxies_df |-> FlatProxy,
                 top_stocks_df |-> [d \in IndDates |-> QuietBar],
                 financials_df |->
                     {[end_date |-> e, timeframe |-> "quarterly", fiscal_year |-> e,
                       fiscal_period |-> q[e].fiscal_period,
                       diluted_eps |-> q[e].diluted_eps] : e \in {x \in IndDates : q[x] # NoRow}}
                     \cup
                     {[end_date |-> e, timeframe |-> "annual", fiscal_year |-> e,
                       fiscal_period |-> a[e].fiscal_period,
                       diluted_eps |-> a[e].diluted_eps] : e \in {x \in IndDates : a[x] # NoRow}},
                 result |-> <<>>, first_result |-> <<>>, altered_date |-> 0]
    /\ pc = "none"
    /\ proxies_df = <<>>
    /\ top_stocks_df = <<>>
    /\ rebalance_dates = <<>>
    /\ initial_funds = RZero
    /\ strategy_func = {}
    /\ data_dict = FreshDataDict
    /\ trading_days = <<>>
    /\ day_index = 0
    /\ portfolio_value = RZero
    /\ holdings = <<>>
    /\ first_rebalance_done = FALSE
    /\ portfolio_records = <<>>
    /\ portfolio_history = <<>>
    /\ strategy_calls = <<>>
    /\ holdings_log = <<>>
    /\ memo = <<>>
    /\ run_no = 1
    /\ first_history = <<>>
    /\ cal = NoCal
    /\ stg = NoStg
    /\ met = NoMet
    /\ ref = NoRef

SpecFinancials == InitFinancials /\ [][IndCall]_vars

\* The flag the call gave the filing r: the C (quarterly) or A (annual) of
\* the price row dated r.end_date, which the join takes from r's ca_df row.
FlagOf(r) ==
    IF r.timeframe = "quarterly" THEN ind.result[r.end_date].C ELSE ind.result[r.end_date].A

ThresholdOf(r) ==
    IF r.timeframe = "quarterly" THEN quarterly_growth_threshold ELSE annual_growth_threshold

\* The filings of r's timeframe (and, for a quarterly r, of r's fiscal period)
\* whose fiscal year is r's fiscal year minus one.
PriorYearFilings(r) ==
    {x \in ind.financials_df :
        /\ x.timeframe = r.timeframe
        /\ r.timeframe = "quarterly" => x.fiscal_period = r.fiscal_period
        /\ x.fiscal_year = r.fiscal_year - 1}

\* C23, as claimed: the flag of a filing is False when the ticker has no
\* filing of the same timeframe (and same fiscal period, if quarterly) for the
\* fiscal year before; otherwise it tells whether the growth over that
\* filing's EPS (other than 0) reaches the threshold.
C23_GrowthAgainstFiscalYearBefore ==
    ind.pc = "returned" =>
        \A r \in ind.financials_df :
            /\ PriorYearFilings(r) = {} => ~FlagOf(r)
            /\ \A x \in PriorYearFilings(r) :
                  x.diluted_eps # 0 =>
                      FlagOf(r) = RLeq(ThresholdOf(r),
                                       Rat(r.diluted_eps - x.diluted_eps, Abs(x.diluted_eps)))

\* C24, as claimed: a filing whose prior-year filing has a diluted EPS of 0
\* has its flag False, whatever its own EPS.
C24_PriorEpsZeroGivesFalse ==
    ind.pc = "returned" =>
        \A r \in ind.financials_df :
            (\E x \in PriorYearFilings(r) : x.diluted_eps = 0) => ~FlagOf(r)

\* The filings of a timeframe that end at e.
FilingsEnding(e, timeframe) ==
    {r \in ind.financials_df : r.end_date = e /\ r.timeframe = timeframe}

\* C30: the C and the A of a price row dated d are those of the price row
\* dated e, the latest end_date <= d of any filing of the ticker, quarterly or
\* annual: C is False when no quarterly filing ends at e and A is False when
\* no annual filing ends at e, whatever the flags of earlier filings.
C30_FlagsFromLatestCombinedRow ==
    ind.pc = "returned" =>
        \A d \in IndDates :
            FiledBy(d) # {} =>
                LET e == SetMax(FiledBy(d))
                IN  /\ ind.result[d].C = ind.result[e].C
                    /\ ind.result[d].A = ind.result[e].A
                    /\ FilingsEnding(e, "quarterly") = {} => ~ind.result[d].C
                    /\ FilingsEnding(e, "annual") = {} => ~ind.result[d].A

\* A price row with C False after an annual-only filing although an earlier
\* quarterly filing had C True, and a price row with A False after a
\* quarterly-only filing that followed an annual filing.
C30_Witness ==
    /\ ind.pc = "returned"
    /\ \E d \in IndDates : \E e0 \in FiledBy(d) :
          /\ e0 < SetMax(FiledBy(d))
          /\ ind.result[e0].C
          /\ FilingsEnding(SetMax(FiledBy(d)), "quarterly") = {}
          /\ ~ind.result[d].C
    /\ \E d \in IndDates : \E e0 \in FiledBy(d) :
          /\ e0 < SetMax(FiledBy(d))
          /\ FilingsEnding(e0, "annual") # {}
          /\ FilingsEnding(SetMax(FiledBy(d)), "annual") = {}
          /\ ~ind.result[d].A

-----------------------------------------------------------------------------
(* calculate_m on a market series longer than the short window *)

MaxMarketRows == 51

\* The market proxy has MaxMarketRows rows; it closes at one level up to some
\* row and at another level after it. The option use_ma_cross is on or off.
InitMarket ==
    /\ \E step \in 1 .. MaxMarketRows : \E levels \in {<<10, 11>>, <<11, 10>>} :
       \E ma_cross \in BOOLEAN :
          ind = [pc |-> "idle",
                 proxies_df |-> [d \in 1 .. MaxMarketRows |->
                                    IF d <= step THEN levels[1] ELSE levels[2]],
                 use_ma_cross |-> ma_cross,
                 result |-> <<>>]
    /\ pc = "none"
    /\ proxies_df = <<>>
    /\ top_stocks_df = <<>>
    /\ rebalance_dates = <<>>
    /\ initial_funds = RZero
    /\ strategy_func = {}
    /\ data_dict = FreshDataDict
    /\ trading_days = <<>>
    /\ day_index = 0
    /\ portfolio_value = RZero
    /\ holdings = <<>>
    /\ first_rebalance_done = FALSE
    /\ portfolio_records = <<>>
    /\ portfolio_history = <<>>
    /\ strategy_calls = <<>>
    /\ holdings_log = <<>>
    /\ memo = <<>>
    /\ run_no = 1
    /\ first_history = <<>>
    /\ cal = NoCal
    /\ stg = NoStg
    /\ met = NoMet
    /\ ref = NoRef

\* Lines 17-38: the column M of the market rows.
MCall ==
    /\ ind.pc = "idle"
    /\ ind' = [ind EXCEPT !.pc = "returned",
                          !.result = [d \in DOMAIN ind.proxies_df |->
                                         calculate_m(ind.proxies_df, ind.use_ma_cross, d)]]
    /\ UNCHANGED all_but_ind

SpecMarket == InitMarket /\ [][MCall]_vars

\* The first SHORT_MA rows of the series.
FirstRows == {d \in DOMAIN ind.proxies_df : d <= SHORT_MA}

\* C29, as claimed: M is False on each of the first 50 rows of the market
\* series, whatever the prices.
C29_FirstFiftyRowsNotBullish ==
    ind.pc = "returned" => \A d \in FirstRows : ~ind.result[d]

\* C29, amended: with use_ma_cross on, M is False on each of the first 50 rows
\* of the market series, whatever the prices; with use_ma_cross off, M is True
\* on every row.
C29_FirstFiftyRowsNotBullishWithMaCross ==
    ind.pc = "returned" =>
        /\ ind.use_ma_cross => \A d \in FirstRows : ~ind.result[d]
        /\ ~ind.use_ma_cross => \A d \in DOMAIN ind.proxies_df : ind.result[d]

\* With use_ma_cross on, a series that rises within its first 50 rows has M
\* False on all of them and True on the row after them.
C29_Witness ==
    /\ ind.pc = "returned"
    /\ ind.use_ma_cross
    /\ \E d \in FirstRows : ind.proxies_df[d] > ind.proxies_df[1]
    /\ \A d \in FirstRows : ~ind.result[d]
    /\ ind.result[SHORT_MA + 1]

-----------------------------------------------------------------------------
(* CANSLIMStrategy (strategy/canslim_strategy.py) *)

Criteria == {"C", "A", "N", "S", "L", "I", "M"}

all_but_stg == <<backtest_vars, cal, ind, met, ref>>

\* A caller that is about to import the module, build a CANSLIMStrategy and
\* evaluate a stock: meets tells for each criterion whether the data it would
\* pass satisfies it, missing whether it has no stock and no financial data.
InitStrategy ==
    /\ stg \in [pc : {"idle"}, meets : [Criteria -> BOOLEAN], missing : BOOLEAN,
                result : {"none"}, error : {"none"}]
    /\ pc = "none"
    /\ proxies_df = <<>>
    /\ top_stocks_df = <<>>
    /\ rebalance_dates = <<>>
    /\ initial_funds = RZero
    /\ strategy_func = {}
    /\ data_dict = FreshDataDict
    /\ trading_days = <<>>
    /\ day_index = 0
    /\ portfolio_value = RZero
    /\ holdings = <<>>
    /\ first_rebalance_done = FALSE
    /\ portfolio_records = <<>>
    /\ portfolio_history = <<>>
    /\ strategy_calls = <<>>
    /\ holdings_log = <<>>
    /\ memo = <<>>
    /\ run_no = 1
    /\ first_history = <<>>
    /\ cal = NoCal
    /\ ind = NoInd
    /\ met = NoMet
    /\ ref = NoRef

\* Line 95 is indented with a tab after lines indented with spaces: compiling
\* the module raises TabError, so the import fails and neither the class nor
\* evaluate_stock comes into being.
ImportRaises ==
    /\ stg.pc = "idle"
    /\ stg' = [stg EXCEPT !.pc = "raised", !.error = "TabError"]
    /\ UNCHANGED all_but_stg

NextStrategy == ImportRaises

SpecStrategy == InitStrategy /\ [][NextStrategy]_vars

\* C16: an evaluation returns 'BUY' exactly when the seven checks all pass,
\* 'SELL' exactly when none passes, and 'HOLD' otherwise.
C16_VerdictFollowsSevenChecks ==
    stg.pc \notin {"none", "idle"} =>
        /\ stg.pc = "returned"
        /\ stg.result = "BUY" <=> \A k \in Criteria : stg.meets[k]
        /\ stg.result = "SELL" <=> \A k \in Criteria : ~stg.meets[k]
        /\ stg.result = "HOLD" <=> /\ \E k \in Criteria : stg.meets[k]
                                   /\ \E k \in Criteria : ~stg.meets[k]

\* C17: for a stock without stock data and financial data nothing is raised
\* and the evaluation returns 'SELL'.
C17_MissingDataGivesSell ==
    (stg.pc \notin {"none", "idle"} /\ stg.missing) =>
        /\ stg.error = "none"
        /\ stg.result = "SELL"

-----------------------------------------------------------------------------
(* Performance metrics (utils/metrics.py) *)

MaxRows == 3

\* The functions of the module that take a portfolio history.
MetricFunctions ==
    {"annualized_return", "annualized_volatility", "max_drawdown", "sharpe_ratio",
     "sortino_ratio", "compute_performance_metrics"}

\* Portfolio histories: a frame with the columns date and portfolio_value and
\* up to MaxRows rows, one per day, or the frame without columns that
\* pd.DataFrame([]) is. Values are whole numbers, 0 among them.
HistoryFrames ==
    {[columns |-> TRUE, rows |-> r] : r \in UNION {[1 .. n -> 0 .. 2] : n \in 0 .. MaxRows}}
        \cup {[columns |-> FALSE, rows |-> <<>>]}

\* A float result is kept as its kind: "0.0", "nan", "inf", or "number" for
\* any other. Row i of a frame is its i-th day.
\* Lines 14-17 with .dropna(): the rows whose daily return is a finite number
\* (the first row and a 0 / 0 give NaN, a rise from 0 is infinite).
DailyReturns(rows) ==
    {i \in 2 .. Len(rows) : rows[i - 1] # 0}

HasInfiniteReturn(rows) ==
    \E i \in 2 .. Len(rows) : rows[i - 1] = 0 /\ rows[i] # 0

ReturnAt(rows, i) == Rat(rows[i] - rows[i - 1], rows[i - 1])

\* Series.std() of the returns at the rows in sel, infinite ones included when
\* inf is set: NaN for a single value or with an infinite one, 0.0 when all
\* values are equal.
StdKind(rows, sel, inf) ==
    IF Cardinality(sel) + (IF inf THEN 1 ELSE 0) < 2 THEN "nan"
    ELSE IF inf THEN "nan"
    ELSE IF \A i, j \in sel : ReturnAt(rows, i) = ReturnAt(rows, j) THEN "0.0"
    ELSE "number"

\* Lines 19-41.
annualized_return(ph) ==
    IF Len(ph.rows) = 0 THEN "0.0"
    ELSE IF Len(ph.rows) - 1 <= 0 THEN "0.0"
    ELSE IF ph.rows[1] <= 0 THEN "0.0"
    ELSE IF ph.rows[Len(ph.rows)] = ph.rows[1] THEN "0.0"
    ELSE "number"

\* Lines 43-47.
annualized_volatility(ph) ==
    IF DailyReturns(ph.rows) = {} /\ ~HasInfiniteReturn(ph.rows) THEN "0.0"
    ELSE StdKind(ph.rows, DailyReturns(ph.rows), HasInfiniteReturn(ph.rows))

\* Lines 49-55: the least of (value - cummax) / cummax, NaN where cummax is 0.
max_drawdown(ph) ==
    LET cummax(i) == SetMax({ph.rows[j] : j \in 1 .. i})
        valid == {i \in DOMAIN ph.rows : cummax(i) # 0}
    IN  IF Len(ph.rows) = 0 THEN "0.0"
        ELSE IF valid = {} THEN "nan"
        ELSE IF \A i \in valid : ph.rows[i] = cummax(i) THEN "0.0"
        ELSE "number"

\* Lines 97-102.
downside_volatility(ph) ==
    LET downside == {i \in DailyReturns(ph.rows) : ph.rows[i] < ph.rows[i - 1]}
    IN  IF downside = {} THEN "0.0" ELSE StdKind(ph.rows, downside, FALSE)

\* Lines 92-95 and 107-110: NaN for a denominator that is 0, else the quotient.
RatioOver(denominator) ==
    IF denominator = "0.0" THEN "nan"
    ELSE IF denominator = "nan" THEN "nan"
    ELSE "number"

\* Lines 89-95.
sharpe_ratio(ph) == RatioOver(annualized_volatility(ph))

\* Lines 104-110.
sortino_ratio(ph) == RatioOver(downside_volatility(ph))

\* Lines 112-134.
compute_performance_metrics(ph) ==
    IF Len(ph.rows) = 0 THEN "{}"
    ELSE [total_return |-> IF ph.rows[1] = 0
                           THEN (IF ph.rows[Len(ph.rows)] = 0 THEN "nan" ELSE "inf")
                           ELSE IF ph.rows[Len(ph.rows)] = ph.rows[1] THEN "0.0"
                           ELSE "number",
          annualized_return |-> annualized_return(ph),
          annualized_volatility |-> annualized_volatility(ph),
          max_drawdown |-> max_drawdown(ph),
          sharpe_ratio |-> sharpe_ratio(ph),
          sortino_ratio |-> sortino_ratio(ph)]

\* What the function named func returns for ph.
MetricResult(func, ph) ==
    CASE func = "annualized_return" -> annualized_return(ph)
      [] func = "annualized_volatility" -> annualized_volatility(ph)
      [] func = "max_drawdown" -> max_drawdown(ph)
      [] func = "sharpe_ratio" -> sharpe_ratio(ph)
      [] func = "sortino_ratio" -> sortino_ratio(ph)
      [] OTHER -> compute_performance_metrics(ph)

all_but_met == <<backtest_vars, cal, ind, stg, ref>>

InitMetrics ==
    /\ met \in [pc : {"idle"}, func : MetricFunctions, portfolio_history : HistoryFrames,
                result : {"none"}, error : {"none"}]
    /\ pc = "none"
    /\ proxies_df = <<>>
    /\ top_stocks_df = <<>>
    /\ rebalance_dates = <<>>
    /\ initial_funds = RZero
    /\ strategy_func = {}
    /\ data_dict = FreshDataDict
    /\ trading_days = <<>>
    /\ day_index = 0
    /\ portfolio_value = RZero
    /\ holdings = <<>>
    /\ first_rebalance_done = FALSE
    /\ portfolio_records = <<>>
    /\ portfolio_history = <<>>
    /\ strategy_calls = <<>>
    /\ holdings_log = <<>>
    /\ memo = <<>>
    /\ run_no = 1
    /\ first_history = <<>>
    /\ cal = NoCal
    /\ ind = NoInd
    /\ stg = NoStg
    /\ ref = NoRef

\* Each function begins with sort_values("date") (lines 15, 20, 50, 113),
\* which raises KeyError on a frame that has no date column.
MetricRaises ==
    /\ met.pc = "idle"
    /\ ~met.portfolio_history.columns
    /\ met' = [met EXCEPT !.pc = "raised", !.error = "KeyError"]
    /\ UNCHANGED all_but_met

MetricReturns ==
    /\ met.pc = "idle"
    /\ met.portfolio_history.columns
    /\ met' = [met EXCEPT !.pc = "returned",
                          !.result = MetricResult(met.func, met.portfolio_history)]
    /\ UNCHANGED all_but_met

NextMetrics == MetricRaises \/ MetricReturns

SpecMetrics == InitMetrics /\ [][NextMetrics]_vars

\* C18: given a portfolio history without rows each metric function returns
\* 0.0, NaN or an empty result and raises nothing; sharpe_ratio and
\* sortino_ratio return NaN when their volatility denominator is 0.
C18_EmptyHistoryAndZeroVolatilityAreGuarded ==
    met.pc \notin {"none", "idle"} =>
        /\ Len(met.portfolio_history.rows) = 0 =>
              /\ met.pc = "returned"
              /\ met.result \in {"0.0", "nan", "{}"}
        /\ (/\ met.pc = "returned"
            /\ met.func = "sharpe_ratio"
            /\ annualized_volatility(met.portfolio_history) = "0.0") => met.result = "nan"
        /\ (/\ met.pc = "returned"
            /\ met.func = "sortino_ratio"
            /\ downside_volatility(met.portfolio_history) = "0.0") => met.result = "nan"

-----------------------------------------------------------------------------
(***************************************************************************)
(* The reference strategies (strategies/strategy_definitions.py).  A call  *)
(* is a function of what the frames of data_dict hold for rebalance_ts:    *)
(*   snapshot  sp500_snapshot_df.loc[:rebalance_ts]: absent from           *)
(*             data_dict, empty, without a "tickers" column, or the        *)
(*             tickers of its latest row;                                  *)
(*   top       the rows of top_stocks_df the strategy selects, one per     *)
(*             ticker (row i is the row of Ticker(i)): the rows at         *)
(*             rebalance_ts for canslim_sp500_hybrid, the latest row on or *)
(*             before it for leader_spy_strategy and volume_spy_strategy;  *)
(*   market    the M of the latest MARKET_PROXY row on or before it.       *)
(* The universe has SmallUniverse stocks, with every combination of rows,  *)
(* or MaxUniverse stocks, with rows that all differ in score.  Closes,     *)
(* highs and volumes are positive and a ticker has one row per date.       *)
(***************************************************************************)
MaxCalls == 2
SmallUniverse == 2
MaxUniverse == 451

\* filtered.head(450), line 164.
MAX_PICKS == 450

Ticker(i) == ToString(i)

Members(n) == {Ticker(i) : i \in 1 .. n}

\* The rows of a small universe: two that pass (C | A) & L with scores 3/2
\* and 3, one that fails L, one that fails C and A.
StockRows ==
    { [C |-> TRUE, A |-> FALSE, L |-> TRUE, close |-> 1, 52_week_high |-> 2,
       volume |-> 1, 50_day_vol_avg |-> 1, L_measure |-> 1, quarterly_volume |-> 1],
      [C |-> FALSE, A |-> TRUE, L |-> TRUE, close |-> 2, 52_week_high |-> 2,
       volume |-> 2, 50_day_vol_avg |-> 1, L_measure |-> 2, quarterly_volume |-> 3],
      [C |-> TRUE, A |-> TRUE, L |-> FALSE, close |-> 1, 52_week_high |-> 1,
       volume |-> 1, 50_day_vol_avg |-> 2, L_measure |-> -1, quarterly_volume |-> 0],
      [C |-> FALSE, A |-> FALSE, L |-> TRUE, close |-> 1, 52_week_high |-> 1,
       volume |-> 3, 50_day_vol_avg |-> 1, L_measure |-> 0, quarterly_volume |-> 0] }

\* The row of stock i in a large universe: score 1 + i.
BroadRow(i) ==
    [C |-> TRUE, A |-> FALSE, L |-> TRUE, close |-> 1, 52_week_high |-> 1,
     volume |-> i, 50_day_vol_avg |-> 1, L_measure |-> i - 2, quarterly_volume |-> i - 1]

\* A row of a top_stocks_df that was neither scored nor enriched.
PlainRow == [close |-> 1, volume |-> 1]

Snapshots(n) ==
    IF n = SmallUniverse
    THEN {[kind |-> k, tickers |-> {}] : k \in {"missing", "none_yet", "no_tickers_column"}}
         \cup {[kind |-> "row", tickers |-> S] : S \in SUBSET Members(n)}
    ELSE {[kind |-> "row", tickers |-> Members(n)]}

TopFrames(n) ==
    IF n = SmallUniverse
    THEN {[kind |-> "missing", rows |-> [i \in 1 .. n |-> NoRow]]}
         \cup {[kind |-> "plain", rows |-> [i \in 1 .. n |-> r]] : r \in {NoRow, PlainRow}}
         \cup [kind : {"enriched"}, rows : [1 .. n -> StockRows \cup {NoRow}]]
    ELSE {[kind |-> "enriched", rows |-> [i \in 1 .. n |-> BroadRow(i)]],
          [kind |-> "enriched",
           rows |-> [i \in 1 .. n |-> IF i % 2 = 0 THEN BroadRow(i) ELSE NoRow]]}

MarketViews == {"missing", "none_yet", "no_close", "bullish", "bearish"}

market_only_strategy == MARKET_PROXY :> RInt(1)

risk_managed_market_strategy(market) ==
    IF market \in {"missing", "none_yet", "no_close"} THEN MONEY_MARKET_PROXY :> RInt(1)
    ELSE IF market = "bullish" THEN MARKET_PROXY :> RInt(1)
    ELSE MONEY_MARKET_PROXY :> RInt(1)

\* close / 52_week_high + volume / 50_day_vol_avg (lines 157-160).
Score(row) == RAdd(Rat(row.close, row.52_week_high), Rat(row.volume, row.50_day_vol_avg))

HeadAll(score, n) == DOMAIN score

\* sort_values("score", ascending=False) and head(n): the rows with fewer
\* than n rows scored above them (the frames have no equal scores at the cut).
HeadByScore(score, n) ==
    {i \in DOMAIN score : Cardinality({j \in DOMAIN score : RLess(score[i], score[j])}) < n}

\* What a call returns and what it appends to data_dict["hybrid_pick_counts"]
\* and to data_dict["hybrid_investments"].
canslim_sp500_hybrid(snapshot, top) ==
    LET fallback(appended) ==
            [allocation |-> MARKET_PROXY :> RInt(1), pick_counts |-> appended,
             investments |-> <<>>]
        at_date == {i \in DOMAIN top.rows : top.rows[i] # NoRow}
        candidates == {i \in at_date : Ticker(i) \in snapshot.tickers}
        filtered == {i \in candidates :
                        top.rows[i].L /\ (top.rows[i].C \/ top.rows[i].A)}
        score == [i \in filtered |-> Score(top.rows[i])]
        chosen == HeadByScore(score, MAX_PICKS)
        total_score == RSum(score, chosen)
    IN  IF snapshot.kind = "missing" \/ top.kind = "missing" THEN fallback(<<>>)
        ELSE IF at_date = {} THEN fallback(<<0>>)
        ELSE IF snapshot.kind \in {"none_yet", "no_tickers_column"} THEN fallback(<<>>)
        ELSE IF top.kind = "plain" THEN fallback(<<>>)
        ELSE IF filtered = {} THEN fallback(<<0>>)
        ELSE IF RLeq(total_score, RZero) THEN fallback(<<0>>)
        ELSE [allocation |->
                  [t \in {Ticker(i) : i \in chosen} |->
                      RDiv(score[CHOOSE i \in chosen : Ticker(i) = t], total_score)],
              pick_counts |-> <<Cardinality(chosen)>>,
              investments |-> <<{Ticker(i) : i \in chosen}>>]

\* {t: 1.0 / len(sp500_tickers) for t in sp500_tickers}
EqualWeight(sp500_tickers) ==
    [t \in sp500_tickers |-> Rat(1, Cardinality(sp500_tickers))]

flattened_spy_strategy(snapshot) ==
    IF snapshot.kind # "row" THEN <<>>
    ELSE IF snapshot.tickers = {} THEN <<>>
    ELSE EqualWeight(snapshot.tickers)

\* Lines 274-300 and 338-361: the members' latest rows, weighted by a column
\* that was clipped at 0; equal weights when the column sums to 0.
SpyWeights(snapshot, top, column, clipped) ==
    LET valid_data == {i \in DOMAIN top.rows :
                          top.rows[i] # NoRow /\ Ticker(i) \in snapshot.tickers}
        raw(i) == IF column = "L_measure" THEN top.rows[i].L_measure
                  ELSE top.rows[i].quarterly_volume
        measure == [i \in valid_data |->
                       RInt(IF clipped /\ raw(i) < 0 THEN 0 ELSE raw(i))]
        total == RSum(measure, valid_data)
    IN  IF snapshot.kind = "missing" \/ top.kind = "missing" THEN <<>>
        ELSE IF snapshot.kind # "row" THEN <<>>
        ELSE IF snapshot.tickers = {} THEN <<>>
        ELSE IF valid_data = {} \/ top.kind = "plain" THEN <<>>
        ELSE IF RLeq(total, RZero) THEN EqualWeight(snapshot.tickers)
        ELSE [t \in {Ticker(i) : i \in valid_data} |->
                 RDiv(measure[CHOOSE i \in valid_data : Ticker(i) = t], total)]

leader_spy_strategy(snapshot, top) == SpyWeights(snapshot, top, "L_measure", TRUE)

volume_spy_strategy(snapshot, top) == SpyWeights(snapshot, top, "quarterly_volume", TRUE)

ReferenceStrategies ==
    {"market_only_strategy", "risk_managed_market_strategy", "canslim_sp500_hybrid",
     "flattened_spy_strategy", "leader_spy_strategy", "volume_spy_strategy"}

all_but_ref == <<backtest_vars, cal, ind, stg, met>>

InitStrategies ==
    /\ \E f \in ReferenceStrategies, n \in {SmallUniverse, MaxUniverse} :
          ref = [pc |-> "idle", strategy_func |-> f, universe |-> n, calls |-> 0,
                 snapshot |-> [kind |-> "missing", tickers |-> {}],
                 top |-> [kind |-> "missing", rows |-> [i \in 1 .. n |-> NoRow]],
                 market |-> "missing",
                 allocation |-> <<>>,
                 hybrid_pick_counts |-> <<>>,
                 hybrid_investments |-> <<>>]
    /\ pc = "none"
    /\ proxies_df = <<>>
    /\ top_stocks_df = <<>>
    /\ rebalance_dates = <<>>
    /\ initial_funds = RZero
    /\ strategy_func = {}
    /\ data_dict = FreshDataDict
    /\ trading_days = <<>>
    /\ day_index = 0
    /\ portfolio_value = RZero
    /\ holdings = <<>>
    /\ first_rebalance_done = FALSE
    /\ portfolio_records = <<>>
    /\ portfolio_history = <<>>
    /\ strategy_calls = <<>>
    /\ holdings_log = <<>>
    /\ memo = <<>>
    /\ run_no = 1
    /\ first_history = <<>>
    /\ cal = NoCal
    /\ ind = NoInd
    /\ stg = NoStg
    /\ met = NoMet

CallMarketOnly ==
    /\ ref.strategy_func = "market_only_strategy"
    /\ ref.calls < MaxCalls
    /\ ref' = [ref EXCEPT !.pc = "returned", !.calls = @ + 1,
                          !.allocation = market_only_strategy]
    /\ UNCHANGED all_but_ref

CallRiskManaged ==
    /\ ref.strategy_func = "risk_managed_market_strategy"
    /\ ref.calls < MaxCalls
    /\ \E market \in MarketViews :
          ref' = [ref EXCEPT !.pc = "returned", !.calls = @ + 1, !.market = market,
                             !.allocation = risk_managed_market_strategy(market)]
    /\ UNCHANGED all_but_ref

CallHybrid ==
    /\ ref.strategy_func = "canslim_sp500_hybrid"
    /\ ref.calls < MaxCalls
    /\ \E snapshot \in Snapshots(ref.universe), top \in TopFrames(ref.universe) :
          LET out == canslim_sp500_hybrid(snapshot, top)
          IN  ref' = [ref EXCEPT !.pc = "returned", !.calls = @ + 1,
                                 !.snapshot = snapshot, !.top = top,
                                 !.allocation = out.allocation,
                                 !.hybrid_pick_counts = @ \o out.pick_counts,
                                 !.hybrid_investments = @ \o out.investments]
    /\ UNCHANGED all_but_ref

CallFlattened ==
    /\ ref.strategy_func = "flattened_spy_strategy"
    /\ ref.calls < MaxCalls
    /\ \E snapshot \in Snapshots(ref.universe) :
          ref' = [ref EXCEPT !.pc = "returned", !.calls = @ + 1, !.snapshot = snapshot,
                             !.allocation = flattened_spy_strategy(snapshot)]
    /\ UNCHANGED all_but_ref

CallLeader ==
    /\ ref.strategy_func = "leader_spy_strategy"
    /\ ref.calls < MaxCalls
    /\ \E snapshot \in Snapshots(ref.universe), top \in TopFrames(ref.universe) :
          ref' = [ref EXCEPT !.pc = "returned", !.calls = @ + 1,
                             !.snapshot = snapshot, !.top = top,
                             !.allocation = leader_spy_strategy(snapshot, top)]
    /\ UNCHANGED all_but_ref

CallVolume ==
    /\ ref.strategy_func = "volume_spy_strategy"
    /\ ref.calls < MaxCalls
    /\ \E snapshot \in Snapshots(ref.universe), top \in TopFrames(ref.universe) :
          ref' = [ref EXCEPT !.pc = "returned", !.calls = @ + 1,
                             !.snapshot = snapshot, !.top = top,
                             !.allocation = volume_spy_strategy(snapshot, top)]
    /\ UNCHANGED all_but_ref

NextStrategies ==
    \/ CallMarketOnly
    \/ CallRiskManaged
    \/ CallHybrid
    \/ CallFlattened
    \/ CallLeader
    \/ CallVolume

SpecStrategies == InitStrategies /\ [][NextStrategies]_vars

\* The weights of an allocation added up: the stocks' halving the universe,
\* then the two proxies'.
AllocationSum(allocation) ==
    LET held == DOMAIN allocation
        stocks == [i \in 1 .. ref.universe |->
                      IF Ticker(i) \in held THEN allocation[Ticker(i)] ELSE RZero]
    IN  RAdd(RSum(stocks, 1 .. ref.universe),
             WeightSumOver(allocation, held \cap {MARKET_PROXY, MONEY_MARKET_PROXY}))

\* The rows that scored: the returned tickers of a hybrid call that picked.
PickedRows == {i \in 1 .. ref.universe : Ticker(i) \in DOMAIN ref.allocation}

HybridPicked ==
    /\ ref.pc = "returned"
    /\ ref.strategy_func = "canslim_sp500_hybrid"
    /\ MARKET_PROXY \notin DOMAIN ref.allocation

\* C25: every reference strategy returns an empty map or a map of weights
\* that are all >= 0 and sum to 1; canslim_sp500_hybrid returns at most 450
\* tickers, and their weights are proportional to their scores.
C25_ReferenceStrategiesReturnNormalisedWeights ==
    ref.pc = "returned" =>
        /\ \/ DOMAIN ref.allocation = {}
           \/ /\ \A t \in DOMAIN ref.allocation : RLeq(RZero, ref.allocation[t])
              /\ AllocationSum(ref.allocation) = RInt(1)
        /\ HybridPicked =>
              /\ Cardinality(DOMAIN ref.allocation) <= MAX_PICKS
              /\ LET first == CHOOSE i \in PickedRows : TRUE
                 IN  \A i \in PickedRows :
                        RMul(ref.allocation[Ticker(i)], Score(ref.top.rows[first]))
                            = RMul(ref.allocation[Ticker(first)], Score(ref.top.rows[i]))

\* A hybrid call with more than 450 qualifying members returned 450 of them.
C25_Witness ==
    /\ HybridPicked
    /\ Cardinality({i \in 1 .. ref.universe :
                       /\ ref.top.rows[i] # NoRow
                       /\ Ticker(i) \in ref.snapshot.tickers}) > MAX_PICKS
    /\ Cardinality(DOMAIN ref.allocation) = MAX_PICKS

\* C26: every call of canslim_sp500_hybrid appends exactly one entry to
\* data_dict["hybrid_pick_counts"], so that after n calls it has n entries.
C26_EveryHybridCallRecordsItsPickCount ==
    ref.strategy_func = "canslim_sp500_hybrid" =>
        Len(ref.hybrid_pick_counts) = ref.calls

====
